---- MODULE Spec2Model ----
(***************************************************************************)
(* Iron condor trading application: the strategy engine                    *)
(* (iron_condor_strategy.py), its data model (models.py), the calendar     *)
(* (date_utils.py) and the application threads (main.py).                   *)
(*                                                                         *)
(* Conventions.  Prices are integers in hundredths of a rupee (75.01 is    *)
(* 7501).  Dates are day numbers, day 0 being a Monday, so that            *)
(* date.weekday() is d % 7; a month is the 28 days from a Thursday, day    *)
(* 28m + 3, so that its 15th, day 28m + 17, is a Thursday.  An Optional    *)
(* value is a set with at most one element: {} is None.  Python dicts that *)
(* the code iterates (active_positions) are sequences in insertion order.  *)
(* Position.pnl is left out: no operation reads it.                        *)
(***************************************************************************)
EXTENDS Integers, Sequences, FiniteSets, TLC

VARIABLES
    today,               \* datetime.date.today()
    active_positions,    \* IronCondorStrategy.active_positions, insertion order
    active_orders,       \* IronCondorStrategy.active_orders: order id -> Order
    option_chains,       \* IronCondorStrategy.option_chains: expiry date -> OptionChain
    next_order_id,       \* the gateway's next order id
    last,                \* the last operation: its arguments, gateway traffic and result
    is_running,          \* IronCondorApp.is_running
    app_api,             \* IronCondorApp.api: the client's number
    strategy_api,        \* IronCondorStrategy.api
    api_count,           \* MStockAPI clients constructed so far
    reconnect_attempts,  \* IronCondorApp.reconnect_attempts
    workers,             \* the _run_strategy threads ever started, each at its position
    monitors,            \* the _reconnection_monitor threads
    cycle                \* the pass of the checklist a _run_strategy thread is in

engineVars == <<today, active_positions, active_orders, option_chains,
                next_order_id>>
appVars == <<is_running, app_api, strategy_api, api_count, reconnect_attempts,
             workers, monitors, cycle>>
vars == <<today, active_positions, active_orders, option_chains,
          next_order_id, last, is_running, app_api, strategy_api, api_count,
          reconnect_attempts, workers, monitors, cycle>>

----------------------------------------------------------------------------
(* Bounds of the model *)

\* The engine is followed until the gateway has issued MaxOrders order ids.
MaxOrders == 1
\* Longest position snapshot the gateway returns.
MaxSnapshot == 2

(* Configuration (DEFAULT_CONFIG) *)
lot_size == 75
lots_per_investment == 1
strangle_distance == 1000
sell_expiry_weeks == 5
close_after_weeks == 4
hedge_expiry_weeks == 1
stop_loss_trigger == 25
stop_loss_percentage == 90
martingale_trigger == 200
martingale_premium_divisor == 2
StrikeStep == 50

----------------------------------------------------------------------------
(* Optional values and small helpers *)

None == {}
Some(x) == {x}
IsSome(o) == o # {}
The(o) == CHOOSE x \in o : TRUE

Abs(n) == IF n < 0 THEN 0 - n ELSE n

\* d[k] = v on a dict kept as a function
DictPut(d, k, v) == [x \in (DOMAIN d) \cup {k} |-> IF x = k THEN v ELSE d[x]]

EmptyDict == [x \in {} |-> {}]

RECURSIVE SortedSeq(_)
\* the elements of a finite set of integers in ascending order
SortedSeq(S) ==
    IF S = {} THEN <<>>
    ELSE LET m == CHOOSE x \in S : \A y \in S : x <= y
         IN <<m>> \o SortedSeq(S \ {m})

----------------------------------------------------------------------------
(* Calendar: date_utils.py *)

Weekday(d) == d % 7

\* variant: the Thursday of the calendar week of the target date
GetExpiryDateSameWeek(t, weeks) ==
    LET target_date == t + 7 * weeks
        days_to_add == 3 - Weekday(target_date)
    IN target_date + days_to_add

\* get_expiry_date_n_weeks_ahead, with datetime.date.today() = t
get_expiry_date_n_weeks_ahead(t, weeks) ==
    LET target_date == t + 7 * weeks
        days_to_add == (3 - Weekday(target_date)) % 7
    IN target_date + days_to_add

\* variant: only the weekend is excluded
IsTradingDayWeekdaysOnly(date, holidays) ==
    IF Weekday(date) >= 5 THEN FALSE
    ELSE TRUE

\* date_utils.is_trading_day; the holiday list holds dates as YYYY-MM-DD
\* strings and the date is formatted the same way before the lookup
is_trading_day(date, holidays) ==
    IF Weekday(date) >= 5 THEN FALSE
    ELSE IF date \in holidays THEN FALSE
    ELSE TRUE

----------------------------------------------------------------------------
(* Symbols and the data model: models.py *)

\* A trading symbol such as NIFTY21JUN15000CE: the underlying, the expiry it
\* was issued for, the strike digits and the CE/PE suffix.
Sym(d, k, t) == [root |-> "NIFTY", day |-> d, strike |-> k, typ |-> t]

\* Position._extract_strike_from_symbol: the digits before the CE/PE suffix
extract_strike_from_symbol(sym) ==
    IF sym.typ \in {"CE", "PE"} THEN Some(sym.strike) ELSE None

\* Position._extract_expiry_from_symbol: year and month are read from the
\* symbol, the day is assumed to be the 15th
extract_expiry_from_symbol(sym) ==
    IF sym.root = "NIFTY" THEN Some(((sym.day - 3) \div 28) * 28 + 17) ELSE None

OptionTypeOfSymbol(sym) ==
    IF sym.typ = "CE" THEN "CE" ELSE IF sym.typ = "PE" THEN "PE" ELSE "None"

\* variant: a long position is flagged as a hedge
FromApiResponseFlaggingHedges(data) ==
    [symbol        |-> data.tradingSymbol,
     quantity      |-> Abs(data.netQuantity),
     average_price |-> data.averagePrice,
     side          |-> IF data.netQuantity > 0 THEN "BUY" ELSE "SELL",
     option_type   |-> OptionTypeOfSymbol(data.tradingSymbol),
     strike_price  |-> extract_strike_from_symbol(data.tradingSymbol),
     expiry_date   |-> extract_expiry_from_symbol(data.tradingSymbol),
     is_hedge      |-> data.netQuantity > 0,
     is_martingale |-> FALSE]

\* Position.from_api_response
from_api_response(data) ==
    [symbol        |-> data.tradingSymbol,
     quantity      |-> Abs(data.netQuantity),
     average_price |-> data.averagePrice,
     side          |-> IF data.netQuantity > 0 THEN "BUY" ELSE "SELL",
     option_type   |-> OptionTypeOfSymbol(data.tradingSymbol),
     strike_price  |-> extract_strike_from_symbol(data.tradingSymbol),
     expiry_date   |-> extract_expiry_from_symbol(data.tradingSymbol),
     is_hedge      |-> FALSE,
     is_martingale |-> FALSE]

----------------------------------------------------------------------------
(* What the gateway can answer *)

\* place_order: rejected (None), accepted with an order id, accepted with a
\* response that carries no orderId
Responses == {"rejected", "ok", "no_id"}

\* quoted premium of a contract
Premium(k, t) ==
    IF t = "CE"
    THEN (IF k <= 21000 THEN 10000 ELSE IF k = 21050 THEN 8000
          ELSE IF k = 21100 THEN 4000 ELSE 3600)
    ELSE (IF k >= 19000 THEN 10000 ELSE IF k = 18950 THEN 8000
          ELSE IF k = 18900 THEN 4000 ELSE 3600)

Contract(d, k, t) == [symbol |-> Sym(d, k, t), last_price |-> Premium(k, t)]

\* OptionChain.from_api_response on the gateway's quote table: the 19050
\* strike is quoted for calls only
ChainTable(d) ==
    [expiry_date |-> d,
     contracts   |-> [k \in {18900, 18950, 19000, 19050, 19100,
                             21000, 21050, 21100, 21150} |->
                        [t \in (IF k = 19050 THEN {"CE"} ELSE {"CE", "PE"}) |->
                            Contract(d, k, t)]]]

\* the answers to one chain lookup that misses the cache: the ways it fails
\* (get_option_chain_for_expiry lines 202-230, and the exception handler of
\* lines 241-243) or the table it gets
ChainMisses ==
    {"master_unavailable", "no_expiry_match", "no_token", "chain_unavailable", "exception"}
ChainAnswers == ChainMisses \cup {"table"}

\* raw position records of a snapshot: a short call of three lots and a long
\* put of one lot (sell expiry 45, hedge expiry 17), a record with net quantity 0 of a
\* contract that is not quoted and expires on day 24, and a second record of
\* the short call's symbol with no average price
RawSellCE == [tradingSymbol |-> Sym(45, 21000, "CE"), netQuantity |-> 0 - 225, averagePrice |-> 10000]
RawHedgePE == [tradingSymbol |-> Sym(17, 18950, "PE"), netQuantity |-> 75, averagePrice |-> 8000]
RawFlat == [tradingSymbol |-> Sym(24, 21200, "CE"), netQuantity |-> 0, averagePrice |-> 10000]
RawSellCE2 == [tradingSymbol |-> Sym(45, 21000, "CE"), netQuantity |-> 0 - 75, averagePrice |-> 0]
\* a short call on another underlying: its symbol does not start with NIFTY,
\* so no expiry date is read from it
RawOther == [tradingSymbol |-> [root |-> "BANKNIFTY", day |-> 45, strike |-> 21000, typ |-> "CE"], netQuantity |-> 0 - 75, averagePrice |-> 10000]
\* the gateway's book of net positions
RawRecords == <<RawSellCE, RawHedgePE, RawFlat, RawSellCE2, RawOther>>

\* a snapshot lists at most MaxSnapshot records of the book, in the book's order
Snapshots ==
    LET picks == {p \in UNION {[1..n -> DOMAIN RawRecords] : n \in 0..MaxSnapshot} :
                     \A i, j \in DOMAIN p : i < j => p[i] < p[j]}
    IN {[i \in DOMAIN p |-> RawRecords[p[i]]] : p \in picks}


\* get_positions: None on a transport failure, else the list of records
PositionAnswers == {None} \cup {Some(s) : s \in Snapshots}

----------------------------------------------------------------------------
(* The engine's working state inside one operation: the order book, the     *)
(* chain cache, the gateway's order counter, and the gateway traffic of     *)
(* the operation (log: place_order calls, fetches: chain lookups sent).     *)

Ctx(orders, chains, nid) ==
    [orders |-> orders, chains |-> chains, nid |-> nid, log |-> <<>>, fetches |-> <<>>]

\* the gateway's answer to the next place_order call of the operation
NextResponse(ctx, resps) ==
    IF Len(ctx.log) + 1 \in DOMAIN resps THEN resps[Len(ctx.log) + 1] ELSE "rejected"

\* MStockAPI.place_order
place_order(ctx, params, resps) ==
    LET r == NextResponse(ctx, resps)
    IN [ctx EXCEPT !.log = Append(@, [params |-> params, resp |-> r,
                                      order_id |-> IF r = "ok" THEN Some(ctx.nid) ELSE None]),
                   !.nid = IF r = "ok" THEN @ + 1 ELSE @]

\* order_response.get("orderId")
OrderIdOf(ctx, resps) ==
    IF NextResponse(ctx, resps) = "ok" THEN Some(ctx.nid) ELSE None

OrderParams(symbol, side, order_type, quantity, price, trigger_price) ==
    [trading_symbol |-> symbol, transaction_type |-> side, order_type |-> order_type,
     quantity |-> quantity, price |-> price, trigger_price |-> trigger_price]

\* Order(...): status defaults to PENDING
NewOrder(symbol, order_type, side, quantity, price, trigger_price, option_type, strike_price, expiry_date, order_id, is_hedge, is_martingale) ==
    [symbol |-> symbol, order_type |-> order_type, side |-> side,
     quantity |-> quantity, price |-> price, trigger_price |-> trigger_price,
     order_id |-> order_id, status |-> "PENDING", option_type |-> option_type,
     strike_price |-> strike_price, expiry_date |-> expiry_date,
     is_hedge |-> is_hedge, is_martingale |-> is_martingale]

\* variant: the order recorded replaces the book
AddToActiveOrdersAlone(ctx, order) ==
    IF IsSome(order.order_id)
    THEN [ctx EXCEPT !.orders = DictPut(EmptyDict, The(order.order_id), order)]
    ELSE ctx

\* "if order.order_id: self.active_orders[order.order_id] = order"
AddToActiveOrders(ctx, order) ==
    IF IsSome(order.order_id)
    THEN [ctx EXCEPT !.orders = DictPut(@, The(order.order_id), order)]
    ELSE ctx

----------------------------------------------------------------------------
(* Chain cache: get_option_chain_for_expiry *)

\* The cache is kept as expiry date -> the name of the quote table it holds;
\* the OptionChain object is that table for that date.
ChainOfAnswer(answer, d) == ChainTable(d)

\* the answer of the gateway to the next chain lookup of the operation
NextAnswer(ctx, answers) ==
    IF Len(ctx.fetches) + 1 \in DOMAIN answers THEN answers[Len(ctx.fetches) + 1]
    ELSE "master_unavailable"

\* variant: a lookup that fails leaves an entry for the date in the cache
GetOptionChainCachingMisses(ctx, expiry_date, answers) ==
    IF expiry_date \in DOMAIN ctx.chains
    THEN [ctx |-> ctx, chain |-> Some(ChainOfAnswer(ctx.chains[expiry_date], expiry_date))]
    ELSE LET a == NextAnswer(ctx, answers)
             c1 == [ctx EXCEPT !.fetches = Append(@, expiry_date)]
         IN IF a \in ChainMisses
            THEN [ctx |-> [c1 EXCEPT !.chains = DictPut(@, expiry_date, a)], chain |-> None]
            ELSE LET option_chain == ChainOfAnswer(a, expiry_date)
                 IN [ctx   |-> [c1 EXCEPT !.chains = DictPut(@, expiry_date, a)],
                     chain |-> Some(option_chain)]

\* variant: every lookup goes to the gateway, whether or not the date is cached
GetOptionChainRefetching(ctx, expiry_date, answers) ==
    LET a == NextAnswer(ctx, answers)
        c1 == [ctx EXCEPT !.fetches = Append(@, expiry_date)]
    IN IF a \in ChainMisses
       THEN [ctx |-> c1, chain |-> None]
       ELSE LET option_chain == ChainOfAnswer(a, expiry_date)
            IN [ctx   |-> [c1 EXCEPT !.chains = DictPut(@, expiry_date, a)],
                chain |-> Some(option_chain)]

get_option_chain_for_expiry(ctx, expiry_date, answers) ==
    IF expiry_date \in DOMAIN ctx.chains
    THEN [ctx |-> ctx, chain |-> Some(ChainOfAnswer(ctx.chains[expiry_date], expiry_date))]
    ELSE LET a == NextAnswer(ctx, answers)
             c1 == [ctx EXCEPT !.fetches = Append(@, expiry_date)]
         IN IF a \in ChainMisses
            THEN [ctx |-> c1, chain |-> None]
            ELSE LET option_chain == ChainOfAnswer(a, expiry_date)
                 IN [ctx   |-> [c1 EXCEPT !.chains = DictPut(@, expiry_date, a)],
                     chain |-> Some(option_chain)]

----------------------------------------------------------------------------
(* Order placement helpers *)

\* variant: the sell order is a limit order at the quoted premium
PlaceSellOrderAtPremium(ctx, option_chain, strike, option_type, quantity, resps) ==
    IF strike \notin DOMAIN option_chain.contracts
    THEN [ctx |-> ctx, order |-> None]
    ELSE IF option_type \notin DOMAIN option_chain.contracts[strike]
    THEN [ctx |-> ctx, order |-> None]
    ELSE LET contract == option_chain.contracts[strike][option_type]
             params == OrderParams(contract.symbol, "SELL", "LIMIT", quantity,
                                   contract.last_price, 0)
             c1 == place_order(ctx, params, resps)
             order == NewOrder(contract.symbol, "LIMIT", "SELL", quantity,
                               contract.last_price, 0, option_type, Some(strike),
                               Some(option_chain.expiry_date), OrderIdOf(ctx, resps),
                               FALSE, FALSE)
         IN IF NextResponse(ctx, resps) = "rejected"
            THEN [ctx |-> c1, order |-> None]
            ELSE [ctx |-> AddToActiveOrders(c1, order), order |-> Some(order)]

\* _place_sell_order, lines 328-410

place_sell_order(ctx, option_chain, strike, option_type, quantity, resps) ==
    IF strike \notin DOMAIN option_chain.contracts
    THEN [ctx |-> ctx, order |-> None]
    ELSE IF option_type \notin DOMAIN option_chain.contracts[strike]
    THEN [ctx |-> ctx, order |-> None]
    ELSE LET contract == option_chain.contracts[strike][option_type]
             params == OrderParams(contract.symbol, "SELL", "MARKET", quantity, 0, 0)
             c1 == place_order(ctx, params, resps)
             order == NewOrder(contract.symbol, "MARKET", "SELL", quantity,
                               contract.last_price, 0, option_type, Some(strike),
                               Some(option_chain.expiry_date), OrderIdOf(ctx, resps),
                               FALSE, FALSE)
         IN IF NextResponse(ctx, resps) = "rejected"
            THEN [ctx |-> c1, order |-> None]
            ELSE [ctx |-> AddToActiveOrders(c1, order), order |-> Some(order)]

HedgeStrike(sell_strike, option_type) ==
    IF option_type = "CE" THEN sell_strike + StrikeStep ELSE sell_strike - StrikeStep

place_hedge_order(ctx, option_chain, sell_strike, option_type, quantity, resps) ==
    LET hedge_strike == HedgeStrike(sell_strike, option_type)
    IN IF hedge_strike \notin DOMAIN option_chain.contracts
       THEN [ctx |-> ctx, order |-> None]
       ELSE IF option_type \notin DOMAIN option_chain.contracts[hedge_strike]
       THEN [ctx |-> ctx, order |-> None]
       ELSE LET contract == option_chain.contracts[hedge_strike][option_type]
                params == OrderParams(contract.symbol, "BUY", "MARKET", quantity, 0, 0)
                c1 == place_order(ctx, params, resps)
                order == NewOrder(contract.symbol, "MARKET", "BUY", quantity,
                                  contract.last_price, 0, option_type, Some(hedge_strike),
                                  Some(option_chain.expiry_date), OrderIdOf(ctx, resps),
                                  TRUE, FALSE)
            IN IF NextResponse(ctx, resps) = "rejected"
               THEN [ctx |-> c1, order |-> None]
               ELSE [ctx |-> AddToActiveOrders(c1, order), order |-> Some(order)]

----------------------------------------------------------------------------
(* Ledger: _update_positions *)

RECURSIVE IndexOfSymbol(_, _)
\* the index of the position of that symbol, 0 if there is none
IndexOfSymbol(positions, symbol) ==
    IF positions = <<>> THEN 0
    ELSE IF positions[Len(positions)].symbol = symbol THEN Len(positions)
    ELSE IndexOfSymbol(SubSeq(positions, 1, Len(positions) - 1), symbol)

\* self.active_positions[position.symbol] = position
PutPosition(positions, position) ==
    LET i == IndexOfSymbol(positions, position.symbol)
    IN IF i = 0 THEN Append(positions, position)
       ELSE [positions EXCEPT ![i] = position]

RECURSIVE ProcessPositions(_, _)
ProcessPositions(positions, positions_data) ==
    IF positions_data = <<>> THEN positions
    ELSE ProcessPositions(PutPosition(positions, from_api_response(Head(positions_data))),
                          Tail(positions_data))

\* "if not positions_data: return" holds for None and for the empty list
NoPositionsData(answer) == answer = None \/ The(answer) = <<>>

update_positions(positions, answer) ==
    IF NoPositionsData(answer) THEN positions
    ELSE ProcessPositions(<<>>, The(answer))

----------------------------------------------------------------------------
(* Strike selection: place_short_strangle lines 263-270.  The spot price is *)
(* a float; spot2 is twice the spot price, so that halves are exact.        *)

\* int(x) for x = x2 / 2: truncation towards zero
IntOfHalves(x2) == IF x2 >= 0 THEN x2 \div 2 ELSE 0 - ((0 - x2) \div 2)

\* round(x / 50): Python 3 rounds a tie to the even neighbour
PyRoundDiv(x, m) ==
    LET q == x \div m
        r == x % m
    IN IF 2 * r < m THEN q
       ELSE IF 2 * r > m THEN q + 1
       ELSE IF q % 2 = 0 THEN q ELSE q + 1

CeStrike(spot2, distance) ==
    PyRoundDiv(IntOfHalves(spot2 + 2 * distance), 50) * 50

PeStrike(spot2, distance) ==
    PyRoundDiv(IntOfHalves(spot2 - 2 * distance), 50) * 50

----------------------------------------------------------------------------
(* place_short_strangle *)

\* variant: the number of lots is taken for the quantity
StrangleQuantityInLots == lots_per_investment

StrangleQuantity == lot_size * lots_per_investment

\* variant: the outcome of the hedge legs is not looked at
PlaceStrangleLegsUnchecked(ctx, sell_chain, hedge_chain, ce_strike, pe_strike, quantity, resps) ==
    LET ce_sell == place_sell_order(ctx, sell_chain, ce_strike, "CE", quantity, resps)
        pe_sell == place_sell_order(ce_sell.ctx, sell_chain, pe_strike, "PE", quantity, resps)
    IN IF ce_sell.order = None \/ pe_sell.order = None
       THEN [ctx |-> pe_sell.ctx, ret |-> FALSE]
       ELSE LET ce_hedge == place_hedge_order(pe_sell.ctx, hedge_chain, ce_strike, "CE",
                                              quantity, resps)
                pe_hedge == place_hedge_order(ce_hedge.ctx, hedge_chain, pe_strike, "PE",
                                              quantity, resps)
            IN [ctx |-> pe_hedge.ctx, ret |-> TRUE]

\* variant: the hedge legs are placed whatever became of the sell legs
PlaceStrangleLegsAllFour(ctx, sell_chain, hedge_chain, ce_strike, pe_strike, quantity, resps) ==
    LET ce_sell == place_sell_order(ctx, sell_chain, ce_strike, "CE", quantity, resps)
        pe_sell == place_sell_order(ce_sell.ctx, sell_chain, pe_strike, "PE", quantity, resps)
        ce_hedge == place_hedge_order(pe_sell.ctx, hedge_chain, ce_strike, "CE",
                                      quantity, resps)
        pe_hedge == place_hedge_order(ce_hedge.ctx, hedge_chain, pe_strike, "PE",
                                      quantity, resps)
    IN [ctx |-> pe_hedge.ctx,
        ret |-> ~(ce_sell.order = None \/ pe_sell.order = None
                  \/ ce_hedge.order = None \/ pe_hedge.order = None)]

\* lines 292-333: the four legs, once both chains are resolved
PlaceStrangleLegs(ctx, sell_chain, hedge_chain, ce_strike, pe_strike, quantity, resps) ==
    LET ce_sell == place_sell_order(ctx, sell_chain, ce_strike, "CE", quantity, resps)
        pe_sell == place_sell_order(ce_sell.ctx, sell_chain, pe_strike, "PE", quantity, resps)
    IN IF ce_sell.order = None \/ pe_sell.order = None
       THEN [ctx |-> pe_sell.ctx, ret |-> FALSE]
       ELSE LET ce_hedge == place_hedge_order(pe_sell.ctx, hedge_chain, ce_strike, "CE",
                                            quantity, resps)
                pe_hedge == place_hedge_order(ce_hedge.ctx, hedge_chain, pe_strike, "PE",
                                            quantity, resps)
            IN IF ce_hedge.order = None \/ pe_hedge.order = None
               THEN [ctx |-> pe_hedge.ctx, ret |-> FALSE]
               ELSE [ctx |-> pe_hedge.ctx, ret |-> TRUE]

\* variant: only the sell chain is required, it stands in for a missing hedge chain
PlaceShortStrangleSellChainOnly(ctx, t, spot2, answers, resps) ==
    LET quantity == StrangleQuantity
        ce_strike == CeStrike(spot2, strangle_distance)
        pe_strike == PeStrike(spot2, strangle_distance)
        sell_expiry_date == get_expiry_date_n_weeks_ahead(t, sell_expiry_weeks)
        hedge_expiry_date == get_expiry_date_n_weeks_ahead(t, hedge_expiry_weeks)
        sell == get_option_chain_for_expiry(ctx, sell_expiry_date, answers)
        hedge == get_option_chain_for_expiry(sell.ctx, hedge_expiry_date, answers)
    IN IF sell.chain = None
       THEN [ctx |-> hedge.ctx, ret |-> FALSE]
       ELSE PlaceStrangleLegs(hedge.ctx, The(sell.chain),
                              IF hedge.chain = None THEN The(sell.chain) ELSE The(hedge.chain),
                              ce_strike, pe_strike, quantity, resps)

place_short_strangle(ctx, t, spot2, answers, resps) ==
    LET quantity == StrangleQuantity
        ce_strike == CeStrike(spot2, strangle_distance)
        pe_strike == PeStrike(spot2, strangle_distance)
        sell_expiry_date == get_expiry_date_n_weeks_ahead(t, sell_expiry_weeks)
        hedge_expiry_date == get_expiry_date_n_weeks_ahead(t, hedge_expiry_weeks)
        sell == get_option_chain_for_expiry(ctx, sell_expiry_date, answers)
        hedge == get_option_chain_for_expiry(sell.ctx, hedge_expiry_date, answers)
    IN IF sell.chain = None \/ hedge.chain = None
       THEN [ctx |-> hedge.ctx, ret |-> FALSE]
       ELSE PlaceStrangleLegs(hedge.ctx, The(sell.chain), The(hedge.chain),
                              ce_strike, pe_strike, quantity, resps)

----------------------------------------------------------------------------
(* handle_stop_loss *)

\* num / den >= pct / 100 for den > 0, on exact rationals
RatioAtLeast(num, den, pct) == 100 * num >= pct * den

\* variant: the drop has to exceed the trigger
StopLossTriggeredAbove(position, current_price) ==
    /\ position.side = "SELL"
    /\ position.average_price > 0
    /\ ~RatioAtLeast(current_price, position.average_price, 100 - stop_loss_trigger)

\* lines 514-516; a zero average price raises ZeroDivisionError, which the
\* handler catches and answers with False
StopLossTriggered(position, current_price) ==
    /\ position.side = "SELL"
    /\ position.average_price > 0
    /\ RatioAtLeast(position.average_price - current_price, position.average_price,
                    stop_loss_trigger)

\* variant: the trigger fraction is taken for the stop price
StopLossPriceFromTrigger(position) == (position.average_price * stop_loss_trigger) \div 100

\* average_price * stop_loss_percentage
StopLossPrice(position) == (position.average_price * stop_loss_percentage) \div 100

\* variant: the re-entry sells one lot
StopLossReentryOneLot(ctx, position, answers, resps) ==
    IF IsSome(position.expiry_date)
    THEN LET got == get_option_chain_for_expiry(ctx, The(position.expiry_date), answers)
         IN IF IsSome(got.chain) /\ IsSome(position.strike_price)
               /\ The(position.strike_price) # 0 /\ position.option_type # "None"
            THEN place_sell_order(got.ctx, The(got.chain), The(position.strike_price),
                                  position.option_type, lot_size, resps).ctx
            ELSE got.ctx
    ELSE ctx

\* lines 562-584: the re-entry sell after an accepted stop order
StopLossReentry(ctx, position, answers, resps) ==
    IF IsSome(position.expiry_date)
    THEN LET got == get_option_chain_for_expiry(ctx, The(position.expiry_date), answers)
         IN IF IsSome(got.chain) /\ IsSome(position.strike_price)
               /\ The(position.strike_price) # 0 /\ position.option_type # "None"
            THEN place_sell_order(got.ctx, The(got.chain), The(position.strike_price),
                                position.option_type, position.quantity, resps).ctx
            ELSE got.ctx
    ELSE ctx

\* variant: the result is that of the re-entry sell
HandleStopLossByReentry(ctx, position, current_price, answers, resps) ==
    IF StopLossTriggered(position, current_price)
    THEN LET stop_loss_price == StopLossPrice(position)
             params == OrderParams(position.symbol, "BUY", "SL", position.quantity,
                                   stop_loss_price, stop_loss_price)
             c1 == place_order(ctx, params, resps)
             order == NewOrder(position.symbol, "SL", "BUY", position.quantity,
                               stop_loss_price, stop_loss_price, position.option_type,
                               position.strike_price, position.expiry_date,
                               OrderIdOf(ctx, resps), FALSE, FALSE)
             c2 == StopLossReentry(AddToActiveOrders(c1, order), position, answers, resps)
         IN IF NextResponse(ctx, resps) = "rejected"
            THEN [ctx |-> c1, ret |-> FALSE]
            ELSE [ctx |-> c2,
                  ret |-> Len(c2.log) = 2 /\ c2.log[2].resp # "rejected"]
    ELSE [ctx |-> ctx, ret |-> FALSE]

handle_stop_loss(ctx, position, current_price, answers, resps) ==
    IF StopLossTriggered(position, current_price)
    THEN LET stop_loss_price == StopLossPrice(position)
             params == OrderParams(position.symbol, "BUY", "SL", position.quantity,
                                   stop_loss_price, stop_loss_price)
             c1 == place_order(ctx, params, resps)
             order == NewOrder(position.symbol, "SL", "BUY", position.quantity,
                               stop_loss_price, stop_loss_price, position.option_type,
                               position.strike_price, position.expiry_date,
                               OrderIdOf(ctx, resps), FALSE, FALSE)
         IN IF NextResponse(ctx, resps) = "rejected"
            THEN [ctx |-> c1, ret |-> FALSE]
            ELSE [ctx |-> StopLossReentry(AddToActiveOrders(c1, order), position,
                                          answers, resps),
                  ret |-> TRUE]
    ELSE [ctx |-> ctx, ret |-> FALSE]

----------------------------------------------------------------------------
(* handle_martingale *)

\* variant: martingale is triggered while the price is under the multiple
MartingaleTriggeredBelow(position, current_price) ==
    /\ position.side = "SELL"
    /\ position.average_price > 0
    /\ ~RatioAtLeast(current_price, position.average_price, martingale_trigger)

\* lines 612-614; a zero average price raises ZeroDivisionError
MartingaleTriggered(position, current_price) ==
    /\ position.side = "SELL"
    /\ position.average_price > 0
    /\ RatioAtLeast(current_price, position.average_price, martingale_trigger)

\* variant: the new quantity is rounded up
MartingaleQuantityRoundedUp(quantity, mult10) == (quantity * mult10 + 9) \div 10

\* int(position.quantity * martingale_quantity_multiplier), the multiplier in tenths
MartingaleQuantity(quantity, mult10) == (quantity * mult10) \div 10

\* variant: the premium of the martingale strike itself is the target
PremiumCloseToTargetUndivided(contract_premium, last_price) ==
    /\ 8 * last_price <= 10 * contract_premium
    /\ 10 * contract_premium <= 12 * last_price

\* 0.8 * target_premium <= contract_premium <= 1.2 * target_premium, where
\* target_premium = last_price / martingale_premium_divisor
PremiumCloseToTarget(contract_premium, last_price) ==
    /\ 8 * last_price <= 10 * martingale_premium_divisor * contract_premium
    /\ 10 * martingale_premium_divisor * contract_premium <= 12 * last_price

RECURSIVE SelectSeq2(_, _, _, _)
\* lines 683-689: the strikes of the chain, in the chain's order, whose
\* premium for the option type is close to the target
SelectSeq2(strikes, option_chain, option_type, last_price) ==
    IF strikes = <<>> THEN <<>>
    ELSE LET strike == Head(strikes)
             rest == SelectSeq2(Tail(strikes), option_chain, option_type, last_price)
         IN IF /\ option_type \in DOMAIN option_chain.contracts[strike]
               /\ PremiumCloseToTarget(
                      option_chain.contracts[strike][option_type].last_price, last_price)
            THEN <<strike>> \o rest
            ELSE rest

MartingaleSellStrikes(option_chain, option_type, last_price) ==
    SelectSeq2(SortedSeq(DOMAIN option_chain.contracts), option_chain, option_type,
               last_price)

RECURSIVE PlaceMartingaleSells(_, _, _, _, _, _)
\* lines 694-734
PlaceMartingaleSells(ctx, position, option_chain, sell_strikes, new_quantity, resps) ==
    IF sell_strikes = <<>> THEN ctx
    ELSE LET strike == Head(sell_strikes)
             contract == option_chain.contracts[strike][position.option_type]
             params == OrderParams(contract.symbol, "SELL", "MARKET", new_quantity, 0, 0)
             c1 == place_order(ctx, params, resps)
             sell_order == NewOrder(contract.symbol, "MARKET", "SELL", new_quantity,
                                    contract.last_price, 0, position.option_type,
                                    Some(strike), position.expiry_date,
                                    OrderIdOf(ctx, resps), FALSE, TRUE)
             c2 == IF NextResponse(ctx, resps) = "rejected" THEN c1
                   ELSE AddToActiveOrders(c1, sell_order)
         IN PlaceMartingaleSells(c2, position, option_chain, Tail(sell_strikes),
                                 new_quantity, resps)

handle_martingale(ctx, position, current_price, option_chain, mult10, resps) ==
    IF /\ MartingaleTriggered(position, current_price)
       /\ IsSome(position.strike_price)
       /\ The(position.strike_price) # 0
       /\ position.option_type # "None"
    THEN LET martingale_strike == HedgeStrike(The(position.strike_price),
                                              position.option_type)
         IN IF /\ martingale_strike \in DOMAIN option_chain.contracts
               /\ position.option_type \in DOMAIN option_chain.contracts[martingale_strike]
            THEN LET contract == option_chain.contracts[martingale_strike][position.option_type]
                     params == OrderParams(contract.symbol, "BUY", "MARKET",
                                           position.quantity, 0, 0)
                     c1 == place_order(ctx, params, resps)
                     buy_order == NewOrder(contract.symbol, "MARKET", "BUY",
                                           position.quantity, contract.last_price, 0,
                                           position.option_type, Some(martingale_strike),
                                           position.expiry_date, OrderIdOf(ctx, resps),
                                           FALSE, TRUE)
                     new_quantity == MartingaleQuantity(position.quantity, mult10)
                     sell_strikes == MartingaleSellStrikes(option_chain,
                                         position.option_type, contract.last_price)
                 IN IF NextResponse(ctx, resps) = "rejected"
                    THEN [ctx |-> c1, ret |-> FALSE]
                    ELSE [ctx |-> PlaceMartingaleSells(AddToActiveOrders(c1, buy_order),
                                      position, option_chain, sell_strikes, new_quantity,
                                      resps),
                          ret |-> TRUE]
            ELSE [ctx |-> ctx, ret |-> FALSE]
    ELSE [ctx |-> ctx, ret |-> FALSE]

----------------------------------------------------------------------------
(* close_positions_at_expiry, roll_hedge_positions, close_all_positions *)

OppositeSide(side) == IF side = "SELL" THEN "BUY" ELSE "SELL"

RECURSIVE FilterPositions(_, _, _)
\* the positions, in order, that expire on or before the limit; hedge_only
\* keeps those flagged is_hedge
FilterPositions(positions, limit, hedge_only) ==
    IF positions = <<>> THEN <<>>
    ELSE LET position == Head(positions)
             rest == FilterPositions(Tail(positions), limit, hedge_only)
         IN IF /\ IsSome(position.expiry_date)
               /\ The(position.expiry_date) <= limit
               /\ (hedge_only => position.is_hedge)
            THEN <<position>> \o rest
            ELSE rest

RECURSIVE CloseEachUntilRejected(_, _, _)
\* variant: the first rejection ends the closing
CloseEachUntilRejected(ctx, positions, resps) ==
    IF positions = <<>> THEN ctx
    ELSE LET position == Head(positions)
             params == OrderParams(position.symbol, OppositeSide(position.side), "MARKET",
                                   position.quantity, 0, 0)
         IN IF NextResponse(ctx, resps) = "rejected"
            THEN place_order(ctx, params, resps)
            ELSE CloseEachUntilRejected(place_order(ctx, params, resps), Tail(positions), resps)

RECURSIVE CloseEach(_, _, _)
\* lines 780-798: one opposite-side market order per position, a rejection
\* is skipped
CloseEach(ctx, positions, resps) ==
    IF positions = <<>> THEN ctx
    ELSE LET position == Head(positions)
             params == OrderParams(position.symbol, OppositeSide(position.side), "MARKET",
                                   position.quantity, 0, 0)
         IN CloseEach(place_order(ctx, params, resps), Tail(positions), resps)

\* variant: the ledger is resynchronised also when nothing is due
ClosePositionsAlwaysSync(ctx, positions, t, resps) ==
    LET close_date == get_expiry_date_n_weeks_ahead(t, close_after_weeks)
        positions_to_close == FilterPositions(positions, close_date, FALSE)
    IN IF positions_to_close = <<>>
       THEN [ctx |-> ctx, ret |-> FALSE, sync |-> TRUE]
       ELSE [ctx |-> CloseEach(ctx, positions_to_close, resps), ret |-> TRUE, sync |-> TRUE]

\* the result also says whether the ledger was resynchronised
close_positions_at_expiry(ctx, positions, t, resps) ==
    LET close_date == get_expiry_date_n_weeks_ahead(t, close_after_weeks)
        positions_to_close == FilterPositions(positions, close_date, FALSE)
    IN IF positions_to_close = <<>>
       THEN [ctx |-> ctx, ret |-> FALSE, sync |-> FALSE]
       ELSE [ctx |-> CloseEach(ctx, positions_to_close, resps), ret |-> TRUE, sync |-> TRUE]

RECURSIVE RollEachAlwaysReplace(_, _, _, _)
\* variant: the new hedge is placed whatever became of the close order
RollEachAlwaysReplace(ctx, positions, option_chain, resps) ==
    IF positions = <<>> THEN ctx
    ELSE LET position == Head(positions)
             params == OrderParams(position.symbol, "SELL", "MARKET", position.quantity, 0, 0)
             c1 == place_order(ctx, params, resps)
             c2 == IF /\ IsSome(position.strike_price)
                      /\ The(position.strike_price) # 0
                      /\ position.option_type # "None"
                   THEN place_hedge_order(c1, option_chain, The(position.strike_price),
                                          position.option_type, position.quantity, resps).ctx
                   ELSE c1
         IN RollEachAlwaysReplace(c2, Tail(positions), option_chain, resps)

RECURSIVE RollEach(_, _, _, _)
\* lines 849-884: close the old hedge; if that is accepted, place the new one
RollEach(ctx, positions, option_chain, resps) ==
    IF positions = <<>> THEN ctx
    ELSE LET position == Head(positions)
             params == OrderParams(position.symbol, "SELL", "MARKET", position.quantity, 0, 0)
             c1 == place_order(ctx, params, resps)
             c2 == IF NextResponse(ctx, resps) = "rejected" THEN c1
                   ELSE IF /\ IsSome(position.strike_price)
                           /\ The(position.strike_price) # 0
                           /\ position.option_type # "None"
                   THEN place_hedge_order(c1, option_chain, The(position.strike_price),
                                        position.option_type, position.quantity, resps).ctx
                   ELSE c1
         IN RollEach(c2, Tail(positions), option_chain, resps)

roll_hedge_positions(ctx, positions, t, answers, resps) ==
    LET hedge_positions == FilterPositions(positions, t, TRUE)
    IN IF hedge_positions = <<>>
       THEN [ctx |-> ctx, ret |-> FALSE, sync |-> FALSE]
       ELSE LET hedge_expiry_date == get_expiry_date_n_weeks_ahead(t, hedge_expiry_weeks)
                got == get_option_chain_for_expiry(ctx, hedge_expiry_date, answers)
            IN IF got.chain = None
               THEN [ctx |-> got.ctx, ret |-> FALSE, sync |-> FALSE]
               ELSE [ctx |-> RollEach(got.ctx, hedge_positions, The(got.chain), resps),
                     ret |-> TRUE, sync |-> TRUE]

RECURSIVE CloseAllPositionsPastRejection(_, _, _)
\* variant: a rejected close order is passed over, as close_positions_at_expiry does
CloseAllPositionsPastRejection(ctx, positions, resps) ==
    IF positions = <<>> THEN [ctx |-> ctx, ret |-> TRUE]
    ELSE LET position == Head(positions)
             params == OrderParams(position.symbol, OppositeSide(position.side), "MARKET",
                                   position.quantity, 0, 0)
             c1 == place_order(ctx, params, resps)
         IN CloseAllPositionsPastRejection(c1, Tail(positions), resps)

RECURSIVE close_all_positions(_, _, _)
\* IronCondorApp.close_all_positions lines 256-277: stops at the first rejection
close_all_positions(ctx, positions, resps) ==
    IF positions = <<>> THEN [ctx |-> ctx, ret |-> TRUE]
    ELSE LET position == Head(positions)
             params == OrderParams(position.symbol, OppositeSide(position.side), "MARKET",
                                   position.quantity, 0, 0)
             c1 == place_order(ctx, params, resps)
         IN IF NextResponse(ctx, resps) = "rejected"
            THEN [ctx |-> c1, ret |-> FALSE]
            ELSE close_all_positions(c1, Tail(positions), resps)

----------------------------------------------------------------------------
(* Inputs of the operations *)

\* twice the Nifty spot price: 20000, 20025.5, 20050 and 20100
Spots2 == {40000, 40051, 40100, 40200}
\* the quote of a position's symbol
Prices == {7500, 7501, 19999, 20000}
\* configured martingale_quantity_multiplier, in tenths: 2.0 and 1.5
Multipliers == {20, 15}
\* a Tuesday
Todays == {8}

\* the sequences over S of length at most n
SeqsUpTo(S, n) == UNION {[1..k -> S] : k \in 0..n}

\* the gateway's answers to the place_order calls and to the chain lookups of
\* one operation, which uses all of them (see Used)
ResponseSeqs(n) == SeqsUpTo(Responses, n)
AnswerSeqs(n) == SeqsUpTo(ChainAnswers, n)
Used(ctx, answers, resps) ==
    /\ Len(ctx.fetches) = Len(answers)
    /\ Len(ctx.log) = Len(resps)

\* the record of the last operation; ledger is active_positions as the
\* operation found it (kept for the operations that resynchronise it)
LastOf(op, pos, price, spot2, ctx, ret, synced, snapshot) ==
    [op |-> op, pos |-> pos, date |-> None, price |-> price, spot2 |-> spot2, mult10 |-> 0,
     log |-> ctx.log, fetches |-> ctx.fetches, ret |-> ret, synced |-> synced,
     snapshot |-> snapshot, ledger |-> <<>>]

NoCtx == Ctx(EmptyDict, EmptyDict, 1)

\* the gateway has issued fewer than MaxOrders order ids
RoomForOrders == next_order_id <= MaxOrders

Commit(ctx) ==
    /\ active_orders' = ctx.orders
    /\ option_chains' = ctx.chains
    /\ next_order_id' = ctx.nid

Now == Ctx(active_orders, option_chains, next_order_id)

----------------------------------------------------------------------------
(* The engine's operations as actions *)

\* a pass of the checklist: the position in it, the clock reading, the
\* locals of _run_strategy, the positions the for loop has still to visit,
\* the steps taken so far, and what get_positions answered to the resync
NoCycle ==
    [pc |-> "clock", now |-> [day |-> 0, time |-> 0], investment_amount |-> 0,
     spot_price |-> None, todo |-> <<>>, current_price |-> None, steps |-> <<>>,
     positions_data |-> None]

InitApp ==
    /\ is_running = FALSE
    /\ app_api = 1
    /\ strategy_api = 1
    /\ api_count = 1
    /\ reconnect_attempts = 0
    /\ workers = <<>>
    /\ monitors = <<>>
    /\ cycle = NoCycle

\* IronCondorStrategy.__init__
Init ==
    /\ today \in Todays
    /\ active_positions = <<>>
    /\ active_orders = EmptyDict
    /\ option_chains = EmptyDict
    /\ next_order_id = 1
    /\ last = LastOf("init", None, 0, 0, NoCtx, FALSE, FALSE, None)
    /\ InitApp

\* _update_positions
DoUpdatePositions ==
    /\ RoomForOrders
    /\ \E answer \in PositionAnswers :
        /\ active_positions' = update_positions(active_positions, answer)
        /\ last' = LastOf("update_positions", None, 0, 0, NoCtx, FALSE, TRUE, answer)
        /\ UNCHANGED <<today, active_orders, option_chains, next_order_id>>
        /\ UNCHANGED appVars

\* get_option_chain_for_expiry for the expiry of an active position (main.py line 396)
DoGetOptionChain ==
    /\ RoomForOrders
    /\ \E i \in DOMAIN active_positions, answers \in AnswerSeqs(1) :
        /\ IsSome(active_positions[i].expiry_date)
        /\ LET got == get_option_chain_for_expiry(Now, The(active_positions[i].expiry_date),
                                              answers)
           IN /\ Used(got.ctx, answers, <<>>)
              /\ Commit(got.ctx)
              /\ last' = [LastOf("get_option_chain_for_expiry", None, 0, 0, got.ctx,
                                 IsSome(got.chain), FALSE, None)
                          EXCEPT !.date = active_positions[i].expiry_date]
        /\ UNCHANGED <<today, active_positions>>
        /\ UNCHANGED appVars

\* place_short_strangle, called when there is no active position (main.py line 381)
DoPlaceShortStrangle ==
    /\ RoomForOrders
    /\ \E spot2 \in Spots2, answers \in AnswerSeqs(2) :
        /\ active_positions = <<>>
        /\ Len(place_short_strangle(Now, today, spot2, answers, <<>>).ctx.fetches) = Len(answers)
        /\ \E resps \in ResponseSeqs(4) :
            LET done == place_short_strangle(Now, today, spot2, answers, resps)
            IN /\ Used(done.ctx, answers, resps)
               /\ Commit(done.ctx)
               /\ last' = LastOf("place_short_strangle", None, 0, spot2, done.ctx,
                                 done.ret, FALSE, None)
        /\ UNCHANGED <<today, active_positions>>
        /\ UNCHANGED appVars

\* handle_stop_loss
DoHandleStopLoss ==
    /\ RoomForOrders
    /\ \E i \in DOMAIN active_positions, price \in Prices :
      \E answers \in AnswerSeqs(IF StopLossTriggered(active_positions[i], price) THEN 1 ELSE 0),
         resps \in ResponseSeqs(IF StopLossTriggered(active_positions[i], price) THEN 2 ELSE 0) :
        /\ LET done == handle_stop_loss(Now, active_positions[i], price, answers, resps)
           IN /\ Used(done.ctx, answers, resps)
              /\ Commit(done.ctx)
              /\ last' = LastOf("handle_stop_loss", Some(active_positions[i]), price, 0,
                                done.ctx, done.ret, FALSE, None)
        /\ UNCHANGED <<today, active_positions>>
        /\ UNCHANGED appVars

\* handle_martingale, with the chain of the position's expiry (main.py lines 396-407)
DoHandleMartingale ==
    /\ RoomForOrders
    /\ \E i \in DOMAIN active_positions, price \in Prices, mult10 \in Multipliers :
      \E resps \in ResponseSeqs(IF MartingaleTriggered(active_positions[i], price)
                                THEN 3 ELSE 0) :
        /\ MartingaleTriggered(active_positions[i], price) \/ mult10 = 20
        /\ IsSome(active_positions[i].expiry_date)
        /\ The(active_positions[i].expiry_date) \in DOMAIN option_chains
        /\ LET done == handle_martingale(Now, active_positions[i], price,
                           ChainOfAnswer(option_chains[The(active_positions[i].expiry_date)],
                                         The(active_positions[i].expiry_date)),
                           mult10, resps)
           IN /\ Used(done.ctx, <<>>, resps)
              /\ Commit(done.ctx)
              /\ last' = [LastOf("handle_martingale", Some(active_positions[i]), price, 0,
                                 done.ctx, done.ret, FALSE, None) EXCEPT !.mult10 = mult10]
        /\ UNCHANGED <<today, active_positions>>
        /\ UNCHANGED appVars

\* close_positions_at_expiry, with its closing _update_positions
DoClosePositionsAtExpiry ==
    /\ RoomForOrders
    /\ \E resps \in ResponseSeqs(Len(active_positions)) :
        /\ LET done == close_positions_at_expiry(Now, active_positions, today, resps)
           IN /\ Used(done.ctx, <<>>, resps)
              /\ Commit(done.ctx)
              /\ \E answer \in IF done.sync THEN PositionAnswers ELSE {None} :
                    /\ active_positions' = IF done.sync
                                           THEN update_positions(active_positions, answer)
                                           ELSE active_positions
                    /\ last' = [LastOf("close_positions_at_expiry", None, 0, 0, done.ctx,
                                       done.ret, done.sync, answer)
                                EXCEPT !.ledger = active_positions]
        /\ UNCHANGED today
        /\ UNCHANGED appVars

\* roll_hedge_positions, with its closing _update_positions
DoRollHedgePositions ==
    /\ RoomForOrders
    /\ \E answers \in AnswerSeqs(1),
          resps \in ResponseSeqs(2 * Len(FilterPositions(active_positions, today, TRUE))) :
        /\ LET done == roll_hedge_positions(Now, active_positions, today, answers, resps)
           IN /\ Used(done.ctx, answers, resps)
              /\ Commit(done.ctx)
              /\ \E answer \in IF done.sync THEN PositionAnswers ELSE {None} :
                    /\ active_positions' = IF done.sync
                                           THEN update_positions(active_positions, answer)
                                           ELSE active_positions
                    /\ last' = [LastOf("roll_hedge_positions", None, 0, 0, done.ctx,
                                       done.ret, done.sync, answer)
                                EXCEPT !.ledger = active_positions]
        /\ UNCHANGED today
        /\ UNCHANGED appVars

\* IronCondorApp.close_all_positions
DoCloseAllPositions ==
    /\ RoomForOrders
    /\ \E resps \in ResponseSeqs(Len(active_positions)) :
        /\ LET done == close_all_positions(Now, active_positions, resps)
           IN /\ Used(done.ctx, <<>>, resps)
              /\ Commit(done.ctx)
              /\ last' = LastOf("close_all_positions", None, 0, 0, done.ctx,
                                done.ret, FALSE, None)
        /\ UNCHANGED <<today, active_positions>>
        /\ UNCHANGED appVars

Next ==
    \/ DoUpdatePositions
    \/ DoGetOptionChain
    \/ DoPlaceShortStrangle
    \/ DoHandleStopLoss
    \/ DoHandleMartingale
    \/ DoClosePositionsAtExpiry
    \/ DoRollHedgePositions
    \/ DoCloseAllPositions

Spec == Init /\ [][Next]_vars

----------------------------------------------------------------------------
(* The engine on the day its hedges expire: today is day 17, the expiry     *)
(* read from the symbol of the long put.  The operations are the ledger     *)
(* resync, the operations that record orders flagged as hedge or martingale *)
(* legs (with the chain lookup that handle_martingale needs), and           *)
(* roll_hedge_positions.                                                    *)

\* a Thursday
HedgeExpiryDays == {17}

InitAtHedgeExpiry ==
    /\ today \in HedgeExpiryDays
    /\ active_positions = <<>>
    /\ active_orders = EmptyDict
    /\ option_chains = EmptyDict
    /\ next_order_id = 1
    /\ last = LastOf("init", None, 0, 0, NoCtx, FALSE, FALSE, None)
    /\ InitApp

NextAtHedgeExpiry ==
    \/ DoUpdatePositions
    \/ DoGetOptionChain
    \/ DoPlaceShortStrangle
    \/ DoHandleMartingale
    \/ DoRollHedgePositions

SpecAtHedgeExpiry == InitAtHedgeExpiry /\ [][NextAtHedgeExpiry]_vars

----------------------------------------------------------------------------
(* Strike selection on its own: the inputs are drawn in the initial state   *)
(* and one step computes the two strikes (place_short_strangle lines        *)
(* 263-270).                                                                *)

\* spot prices from 19990 to 20060 in steps of one half
StrikeSpots2 == 39980..40120
StrikeDistances == {975, 1000, 1025}

InitStrike ==
    /\ today \in Todays
    /\ active_positions = <<>>
    /\ active_orders = EmptyDict
    /\ option_chains = EmptyDict
    /\ next_order_id = 1
    /\ \E spot2 \in StrikeSpots2, distance \in StrikeDistances :
          last = [op |-> "strike_input", spot2 |-> spot2, distance |-> distance,
                  ce_strike |-> 0, pe_strike |-> 0]
    /\ InitApp

DoComputeStrikes ==
    /\ last.op = "strike_input"
    /\ last' = [last EXCEPT !.op = "strikes",
                            !.ce_strike = CeStrike(last.spot2, last.distance),
                            !.pe_strike = PeStrike(last.spot2, last.distance)]
    /\ UNCHANGED <<today, active_positions, active_orders, option_chains, next_order_id>>
    /\ UNCHANGED appVars

NextStrike == DoComputeStrikes

SpecStrike == InitStrike /\ [][NextStrike]_vars

----------------------------------------------------------------------------
(* get_expiry_date_n_weeks_ahead on its own: today and the number of weeks   *)
(* are drawn in the initial state and one step computes the expiry date.    *)

\* the days today is drawn from: four weeks, every weekday seven times over
MaxToday == 27
\* the largest number of weeks
MaxWeeks == 6

InitExpiry ==
    /\ today \in 0..MaxToday
    /\ active_positions = <<>>
    /\ active_orders = EmptyDict
    /\ option_chains = EmptyDict
    /\ next_order_id = 1
    /\ \E weeks \in 0..MaxWeeks :
          last = [op |-> "expiry_input", weeks |-> weeks, expiry_date |-> None]
    /\ InitApp

DoComputeExpiry ==
    /\ last.op = "expiry_input"
    /\ last' = [last EXCEPT !.op = "expiry",
                            !.expiry_date =
                                Some(get_expiry_date_n_weeks_ahead(today, last.weeks))]
    /\ UNCHANGED <<today, active_positions, active_orders, option_chains, next_order_id>>
    /\ UNCHANGED appVars

NextExpiry == DoComputeExpiry

SpecExpiry == InitExpiry /\ [][NextExpiry]_vars

----------------------------------------------------------------------------
(* get_next_trading_day on its own (date_utils.py lines 64-83): the date    *)
(* and the holiday list are drawn in the initial state, which is the state  *)
(* after line 76; each step is one test of the while loop.                  *)

\* the latest date the scan is started from
MaxScanDate == 6
\* the holiday lists: any of a Thursday, a Friday and the Monday, Tuesday and
\* Wednesday after them
ScanHolidays == SUBSET {3, 4, 7, 8, 9}

InitScan ==
    /\ today \in Todays
    /\ active_positions = <<>>
    /\ active_orders = EmptyDict
    /\ option_chains = EmptyDict
    /\ next_order_id = 1
    /\ \E date \in 0..MaxScanDate, holidays \in ScanHolidays :
          last = [op |-> "scan", date |-> date, holidays |-> holidays,
                  next_day |-> date + 1]
    /\ InitApp

\* lines 78-80: next_day is not a trading day, the scan moves on one day
ScanOn ==
    /\ last.op = "scan"
    /\ ~is_trading_day(last.next_day, last.holidays)
    /\ last' = [last EXCEPT !.next_day = @ + 1]
    /\ UNCHANGED <<engineVars, appVars>>

\* lines 78 and 83: next_day is a trading day and is returned
ScanReturn ==
    /\ last.op = "scan"
    /\ is_trading_day(last.next_day, last.holidays)
    /\ last' = [last EXCEPT !.op = "found"]
    /\ UNCHANGED <<engineVars, appVars>>

NextScan ==
    \/ ScanOn
    \/ ScanReturn

\* the loop keeps running: a test that is due is made
SpecScan == InitScan /\ [][NextScan]_vars /\ WF_vars(NextScan)

----------------------------------------------------------------------------
(* roll_hedge_positions on its own.  No operation of the engine sets         *)
(* Position.is_hedge (from_api_response leaves the default), so the ledgers  *)
(* that roll_hedge_positions acts on are drawn in the initial state: long    *)
(* positions constructed with is_hedge = True, next to unflagged ones.       *)

\* Longest ledger the operation is started on.
MaxHedges == 2

\* long hedges expiring on day 17: a call at 21050, a call at 21150 (the
\* strike above it is not quoted); a long call hedge expiring on day 45
RawHedgeCE == [tradingSymbol |-> Sym(17, 21050, "CE"), netQuantity |-> 75, averagePrice |-> 8000]
RawHedgeFar == [tradingSymbol |-> Sym(17, 21150, "CE"), netQuantity |-> 75, averagePrice |-> 3600]
RawHedgeLate == [tradingSymbol |-> Sym(45, 21050, "CE"), netQuantity |-> 150, averagePrice |-> 8000]

\* Position(..., is_hedge=True)
HedgeFlagged(data) == [from_api_response(data) EXCEPT !.is_hedge = TRUE]

RollPositions ==
    <<HedgeFlagged(RawHedgeCE), HedgeFlagged(RawHedgePE), HedgeFlagged(RawHedgeFar),
      HedgeFlagged(RawHedgeLate), from_api_response(RawHedgePE)>>

\* the ledgers: at most MaxHedges of these positions, one per symbol
RollLedgers ==
    LET picks == {p \in UNION {[1..n -> DOMAIN RollPositions] : n \in 0..MaxHedges} :
                     \A i, j \in DOMAIN p : i < j => p[i] < p[j]}
        ledgers == {[i \in DOMAIN p |-> RollPositions[p[i]]] : p \in picks}
    IN {l \in ledgers : \A i, j \in DOMAIN l : l[i].symbol = l[j].symbol => i = j}

\* the Thursday on which the hedges of day 17 expire
RollTodays == {17}

InitRoll ==
    /\ today \in RollTodays
    /\ active_positions \in RollLedgers
    /\ active_orders = EmptyDict
    /\ option_chains = EmptyDict
    /\ next_order_id = 1
    /\ last = LastOf("init", None, 0, 0, NoCtx, FALSE, FALSE, None)
    /\ InitApp

NextRoll == DoRollHedgePositions

SpecRoll == InitRoll /\ [][NextRoll]_vars

----------------------------------------------------------------------------

(* The application's threads: IronCondorApp.start, stop and reconnect, the  *)
(* strategy-loop threads (_run_strategy) and the watchdog threads           *)
(* (_reconnection_monitor).  is_running stands for the pair                 *)
(* self.is_running / self.strategy.is_running, which are always assigned    *)
(* together.  A strategy-loop thread is at "start" (before                  *)
(* strategy.initialize), at "loop" (about to test "while self.is_running"), *)
(* in "cycle" (it has seen is_running true and runs the checklist) or       *)
(* "done"; a watchdog thread is at "loop", in "probe" or "done".            *)

\* Threads of each kind that are ever started.
MaxThreads == 3
\* API clients that are ever constructed.
MaxApis == 3
max_retries == 5

App ==
    [is_running |-> is_running, app_api |-> app_api, strategy_api |-> strategy_api,
     api_count |-> api_count, reconnect_attempts |-> reconnect_attempts,
     workers |-> workers, monitors |-> monitors]

CommitApp(a) ==
    /\ is_running' = a.is_running
    /\ app_api' = a.app_api
    /\ strategy_api' = a.strategy_api
    /\ api_count' = a.api_count
    /\ reconnect_attempts' = a.reconnect_attempts
    /\ workers' = a.workers
    /\ monitors' = a.monitors
    /\ UNCHANGED cycle

\* IronCondorApp.start
start(a) ==
    IF a.is_running THEN a
    ELSE [a EXCEPT !.is_running = TRUE,
                   !.workers = Append(@, "start"),
                   !.monitors = Append(@, "loop")]

\* IronCondorApp.stop
stop(a) ==
    IF ~a.is_running THEN a
    ELSE [a EXCEPT !.is_running = FALSE]

\* variant: a successful reconnection leaves the retry counter as it is
ReconnectKeepingCounter(a, login_ok) ==
    LET was_running == a.is_running
        a1 == stop(a)
        a2 == [a1 EXCEPT !.api_count = @ + 1, !.app_api = a1.api_count + 1]
    IN IF ~login_ok
       THEN [app |-> a2, ret |-> FALSE]
       ELSE LET a3 == [a2 EXCEPT !.strategy_api = a2.app_api]
                a4 == IF was_running THEN start(a3) ELSE a3
            IN [app |-> a4, ret |-> TRUE]

\* variant: a failed login hands the new client to the engine and restarts
ReconnectRestartingAfterFailure(a, login_ok) ==
    LET was_running == a.is_running
        a1 == stop(a)
        a2 == [a1 EXCEPT !.api_count = @ + 1, !.app_api = a1.api_count + 1]
        a3 == [a2 EXCEPT !.strategy_api = a2.app_api]
        a4 == IF was_running THEN start(a3) ELSE a3
    IN IF ~login_ok
       THEN [app |-> a4, ret |-> FALSE]
       ELSE [app |-> [a4 EXCEPT !.reconnect_attempts = 0], ret |-> TRUE]

\* IronCondorApp.reconnect
reconnect(a, login_ok) ==
    LET was_running == a.is_running
        a1 == stop(a)
        a2 == [a1 EXCEPT !.api_count = @ + 1, !.app_api = a1.api_count + 1]
    IN IF ~login_ok
       THEN [app |-> a2, ret |-> FALSE]
       ELSE LET a3 == [a2 EXCEPT !.strategy_api = a2.app_api]
                a4 == IF was_running THEN start(a3) ELSE a3
            IN [app |-> [a4 EXCEPT !.reconnect_attempts = 0], ret |-> TRUE]

\* room for the threads that a start would create
RoomForThreads == Len(workers) < MaxThreads
RoomForApis == api_count < MaxApis

\* the console's Start Trading button
DoStart ==
    /\ RoomForThreads
    /\ ~is_running
    /\ CommitApp(start(App))
    /\ UNCHANGED <<engineVars, last>>

\* the console's Stop Trading button, or the interrupt handler of run()
DoStop ==
    /\ is_running
    /\ CommitApp(stop(App))
    /\ UNCHANGED <<engineVars, last>>

\* the console's Force Reconnect button
DoReconnect ==
    /\ RoomForThreads
    /\ RoomForApis
    /\ \E login_ok \in BOOLEAN : CommitApp(reconnect(App, login_ok).app)
    /\ UNCHANGED <<engineVars, last>>

\* _run_strategy lines 333-339: strategy.initialize() fails or succeeds
WorkerInitialize ==
    /\ \E w \in DOMAIN workers, ok \in BOOLEAN :
        /\ workers[w] = "start"
        /\ CommitApp(IF ok
                     THEN [App EXCEPT !.workers[w] = "loop"]
                     ELSE [App EXCEPT !.workers[w] = "done", !.is_running = FALSE])
    /\ UNCHANGED <<engineVars, last>>

\* _run_strategy line 344: while self.is_running
WorkerCheck ==
    /\ \E w \in DOMAIN workers :
        /\ workers[w] = "loop"
        /\ CommitApp([App EXCEPT !.workers[w] = IF is_running THEN "cycle" ELSE "done"])
    /\ UNCHANGED <<engineVars, last>>

\* _run_strategy lines 344-424: one pass of the checklist and the sleep
WorkerCycle ==
    /\ \E w \in DOMAIN workers :
        /\ workers[w] = "cycle"
        /\ CommitApp([App EXCEPT !.workers[w] = "loop"])
    /\ UNCHANGED <<engineVars, last>>

\* _reconnection_monitor line 437: while self.is_running
MonitorCheck ==
    /\ \E m \in DOMAIN monitors :
        /\ monitors[m] = "loop"
        /\ CommitApp([App EXCEPT !.monitors[m] = IF is_running THEN "probe" ELSE "done"])
    /\ UNCHANGED <<engineVars, last>>

\* _reconnection_monitor lines 438-470: the connection check and what follows
MonitorProbe ==
    /\ RoomForThreads
    /\ RoomForApis
    /\ \E m \in DOMAIN monitors, fund_ok \in BOOLEAN, login_ok \in BOOLEAN :
        /\ monitors[m] = "probe"
        /\ fund_ok => login_ok
        /\ LET a1 == [App EXCEPT !.reconnect_attempts = @ + 1]
           IN CommitApp(
                IF fund_ok THEN [App EXCEPT !.monitors[m] = "loop"]
                ELSE IF a1.reconnect_attempts > max_retries
                THEN [stop(a1) EXCEPT !.monitors[m] = "done"]
                ELSE [reconnect(a1, login_ok).app EXCEPT !.monitors[m] = "loop"])
    /\ UNCHANGED <<engineVars, last>>

NextApp ==
    \/ DoStart
    \/ DoStop
    \/ DoReconnect
    \/ WorkerInitialize
    \/ WorkerCheck
    \/ WorkerCycle
    \/ MonitorCheck
    \/ MonitorProbe

SpecApp == Init /\ [][NextApp]_vars

----------------------------------------------------------------------------
(* The watchdog after earlier failures.  A failed reconnection leaves the    *)
(* application stopped with its retry counter raised, and start() does not  *)
(* reset the counter: the application starts here stopped, with the counter *)
(* anywhere up to the value at which the watchdog halts.  The threads that  *)
(* have ended and the clients that were discarded on the way are left out.  *)

InitWatchdog ==
    /\ today \in Todays
    /\ active_positions = <<>>
    /\ active_orders = EmptyDict
    /\ option_chains = EmptyDict
    /\ next_order_id = 1
    /\ last = LastOf("init", None, 0, 0, NoCtx, FALSE, FALSE, None)
    /\ is_running = FALSE
    /\ app_api = 1
    /\ strategy_api = 1
    /\ api_count = 1
    /\ reconnect_attempts \in 0..(max_retries + 1)
    /\ workers = <<>>
    /\ monitors = <<>>
    /\ cycle = NoCycle

NextWatchdog ==
    \/ DoStart
    \/ DoStop
    \/ WorkerInitialize
    \/ WorkerCheck
    \/ WorkerCycle
    \/ MonitorCheck
    \/ MonitorProbe

SpecWatchdog == InitWatchdog /\ [][NextWatchdog]_vars

----------------------------------------------------------------------------
(* The chain cache under engine operations and reconnects: the ledger       *)
(* resync, the engine's operations that look a chain up in the cache, and   *)
(* IronCondorApp.reconnect, which replaces the gateway client of the        *)
(* engine and leaves the engine object, and so its cache, in place.         *)

NextCache ==
    \/ DoUpdatePositions
    \/ DoGetOptionChain
    \/ DoPlaceShortStrangle
    \/ DoHandleStopLoss
    \/ DoRollHedgePositions
    \/ DoReconnect

SpecCache == Init /\ [][NextCache]_vars

----------------------------------------------------------------------------

(* The Control Loop: one _run_strategy thread, pass by pass (main.py lines  *)
(* 344-430).  Each step of the checklist is one action; cycle.steps lists   *)
(* the steps the pass has taken.  The order responses and the chain answers *)
(* of one step are steady: the gateway gives the same answer to every call  *)
(* of the step.                                                             *)

\* TRADING_HOURS start_time 09:15:00 and end_time 15:30:00, in seconds of the day
start_time == 33300
end_time == 55800
\* INVESTMENT_CONFIG base_investment
base_investment == 200000
\* HOLIDAYS, filled in by the user: one weekday (a Wednesday)
HOLIDAYS == {9}

\* variant: the end of the trading hours is excluded
IsTradingTimeBeforeEnd(current_time, opening, closing) ==
    opening <= current_time /\ current_time < closing

\* date_utils.is_trading_time
is_trading_time(current_time, opening, closing) ==
    opening <= current_time /\ current_time <= closing

\* calculate_investment_amount: the available funds, or the configured base
calculate_investment_amount(fund_summary) ==
    IF IsSome(fund_summary) THEN The(fund_summary) ELSE base_investment

\* datetime.datetime.now(): a Tuesday (the engine's today), the holiday, a
\* Saturday and a Sunday; one second before the opening, the opening, the
\* close and one second after it
LoopDays == {8, 9, 12, 13}
LoopTimes == {start_time - 1, start_time, end_time, end_time + 1}
Clocks == {[day |-> d, time |-> t] : d \in LoopDays, t \in LoopTimes}
\* get_fund_summary: unavailable, or available funds of 200000
FundAnswers == {None, Some(200000)}
\* get_quote("NIFTY"): unavailable, or twice the last price
SpotAnswers == {None, Some(40000)}
\* get_quote(symbol): unavailable, or the last price of the position's symbol
PriceAnswers == {None, Some(7500), Some(20000)}

\* the same answer to every call of a step
Steady(x) == [k \in 1..4 |-> x]

Event(step, pos) == [step |-> step, pos |-> pos]
Took(c, step, pos) == [c EXCEPT !.steps = Append(@, Event(step, pos))]

\* what a step of the one _run_strategy thread leaves alone
threadFrame == <<last, is_running, app_api, strategy_api, api_count, reconnect_attempts,
                 monitors>>

\* the application after start() and a successful strategy.initialize(),
\* which has logged in and synchronised the ledger once
InitLoop ==
    /\ today \in Todays
    /\ \E answer \in PositionAnswers : active_positions = update_positions(<<>>, answer)
    /\ active_orders = EmptyDict
    /\ option_chains = EmptyDict
    /\ next_order_id = 1
    /\ last = LastOf("init", None, 0, 0, NoCtx, FALSE, FALSE, None)
    /\ is_running = TRUE
    /\ app_api = 1
    /\ strategy_api = 1
    /\ api_count = 1
    /\ reconnect_attempts = 0
    /\ workers = <<"loop">>
    /\ monitors = <<"loop">>
    /\ cycle = NoCycle

\* lines 346-362: the clock is read; outside a trading day or the trading
\* hours the pass sleeps and ends
CycleClock ==
    /\ workers = <<"cycle">>
    /\ cycle.pc = "clock"
    /\ RoomForOrders
    /\ \E now \in Clocks :
        cycle' = [NoCycle EXCEPT
                    !.now = now,
                    !.pc = IF ~is_trading_day(now.day, HOLIDAYS) THEN "sleep"
                           ELSE IF ~is_trading_time(now.time, start_time, end_time)
                           THEN "sleep"
                           ELSE "funds"]
    /\ UNCHANGED <<engineVars, threadFrame, workers>>

\* lines 365-367: calculate_investment_amount
CycleFunds ==
    /\ workers = <<"cycle">>
    /\ cycle.pc = "funds"
    /\ \E fund_summary \in FundAnswers :
        cycle' = [Took(cycle, "calculate_investment_amount", None) EXCEPT
                    !.investment_amount = calculate_investment_amount(fund_summary),
                    !.pc = "spot"]
    /\ UNCHANGED <<engineVars, threadFrame, workers>>

\* lines 369-374: _get_spot_price; without a spot price the pass sleeps and ends
CycleSpot ==
    /\ workers = <<"cycle">>
    /\ cycle.pc = "spot"
    /\ \E spot \in SpotAnswers :
        cycle' = [Took(cycle, "get_spot_price", None) EXCEPT
                    !.spot_price = spot,
                    !.pc = IF spot = None THEN "sleep" ELSE "resync"]
    /\ UNCHANGED <<engineVars, threadFrame, workers>>

\* lines 376-378: _update_positions
CycleResync ==
    /\ workers = <<"cycle">>
    /\ cycle.pc = "resync"
    /\ \E answer \in PositionAnswers :
        /\ active_positions' = update_positions(active_positions, answer)
        /\ cycle' = [Took(cycle, "update_positions", None) EXCEPT
                       !.pc = "entry", !.positions_data = answer]
    /\ UNCHANGED <<today, active_orders, option_chains, next_order_id, threadFrame, workers>>

\* variant: the strangle is placed whatever the ledger holds
CycleEntryUnconditional ==
    /\ workers = <<"cycle">>
    /\ cycle.pc = "entry"
    /\ \E a \in ChainAnswers, r \in Responses :
         LET done == place_short_strangle(Now, today, The(cycle.spot_price),
                                          Steady(a), Steady(r))
         IN /\ Commit(done.ctx)
            /\ cycle' = [Took(cycle, "place_short_strangle", None) EXCEPT
                           !.pc = "positions", !.todo = active_positions]
    /\ UNCHANGED <<today, active_positions, threadFrame, workers>>

\* lines 380-383: place_short_strangle if the ledger is empty; then the for
\* loop of line 387 starts on the items of the ledger
CycleEntry ==
    /\ workers = <<"cycle">>
    /\ cycle.pc = "entry"
    /\ IF active_positions = <<>>
       THEN \E a \in ChainAnswers, r \in Responses :
              LET done == place_short_strangle(Now, today, The(cycle.spot_price),
                                               Steady(a), Steady(r))
              IN /\ Commit(done.ctx)
                 /\ cycle' = [Took(cycle, "place_short_strangle", None) EXCEPT
                                !.pc = "positions", !.todo = active_positions]
       ELSE /\ UNCHANGED <<active_orders, option_chains, next_order_id>>
            /\ cycle' = [cycle EXCEPT !.pc = "positions", !.todo = active_positions]
    /\ UNCHANGED <<today, active_positions, threadFrame, workers>>

\* variant: the positions of either side are checked
CyclePositionAnySide ==
    /\ workers = <<"cycle">>
    /\ cycle.pc = "positions"
    /\ IF cycle.todo = <<>>
       THEN /\ cycle' = [cycle EXCEPT !.pc = "close"]
            /\ UNCHANGED <<active_orders, option_chains, next_order_id>>
       ELSE LET position == Head(cycle.todo)
            IN IF FALSE
               THEN /\ cycle' = [cycle EXCEPT !.todo = Tail(@)]
                    /\ UNCHANGED <<active_orders, option_chains, next_order_id>>
               ELSE \E price \in PriceAnswers, a \in ChainAnswers :
                      LET c1 == Took(cycle, "get_current_price", Some(position))
                      IN IF price = None
                         THEN /\ cycle' = [c1 EXCEPT !.todo = Tail(@)]
                              /\ UNCHANGED <<active_orders, option_chains, next_order_id>>
                         ELSE IF position.expiry_date = None
                         THEN /\ cycle' = [Took(c1, "raise", Some(position)) EXCEPT
                                             !.pc = "except"]
                              /\ UNCHANGED <<active_orders, option_chains, next_order_id>>
                         ELSE LET got == get_option_chain_for_expiry(
                                             Now, The(position.expiry_date), Steady(a))
                                  c2 == Took(c1, "get_option_chain_for_expiry", Some(position))
                              IN /\ Commit(got.ctx)
                                 /\ cycle' = IF got.chain = None
                                             THEN [c2 EXCEPT !.todo = Tail(@)]
                                             ELSE [c2 EXCEPT !.pc = "stop_loss",
                                                             !.current_price = price]
    /\ UNCHANGED <<today, active_positions, threadFrame, workers>>

\* lines 387-400: the next position of the for loop.  A BUY position is
\* passed over; for a SELL position the price is fetched (without one the
\* loop continues) and the chain of its expiry is looked up (without one the
\* loop continues); position.expiry_date.date() raises AttributeError when
\* no expiry was read from the symbol.  After the last position: line 410.
CyclePosition ==
    /\ workers = <<"cycle">>
    /\ cycle.pc = "positions"
    /\ IF cycle.todo = <<>>
       THEN /\ cycle' = [cycle EXCEPT !.pc = "close"]
            /\ UNCHANGED <<active_orders, option_chains, next_order_id>>
       ELSE LET position == Head(cycle.todo)
            IN IF position.side # "SELL"
               THEN /\ cycle' = [cycle EXCEPT !.todo = Tail(@)]
                    /\ UNCHANGED <<active_orders, option_chains, next_order_id>>
               ELSE \E price \in PriceAnswers, a \in ChainAnswers :
                      LET c1 == Took(cycle, "get_current_price", Some(position))
                      IN IF price = None
                         THEN /\ cycle' = [c1 EXCEPT !.todo = Tail(@)]
                              /\ UNCHANGED <<active_orders, option_chains, next_order_id>>
                         ELSE IF position.expiry_date = None
                         THEN /\ cycle' = [Took(c1, "raise", Some(position)) EXCEPT
                                             !.pc = "except"]
                              /\ UNCHANGED <<active_orders, option_chains, next_order_id>>
                         ELSE LET got == get_option_chain_for_expiry(
                                             Now, The(position.expiry_date), Steady(a))
                                  c2 == Took(c1, "get_option_chain_for_expiry", Some(position))
                              IN /\ Commit(got.ctx)
                                 /\ cycle' = IF got.chain = None
                                             THEN [c2 EXCEPT !.todo = Tail(@)]
                                             ELSE [c2 EXCEPT !.pc = "stop_loss",
                                                             !.current_price = price]
    /\ UNCHANGED <<today, active_positions, threadFrame, workers>>

\* lines 402-404: handle_stop_loss
CycleStopLoss ==
    /\ workers = <<"cycle">>
    /\ cycle.pc = "stop_loss"
    /\ \E a \in ChainAnswers, r \in Responses :
         LET position == Head(cycle.todo)
             done == handle_stop_loss(Now, position, The(cycle.current_price),
                                      Steady(a), Steady(r))
         IN /\ Commit(done.ctx)
            /\ cycle' = [Took(cycle, "handle_stop_loss", Some(position)) EXCEPT
                           !.pc = "martingale"]
    /\ UNCHANGED <<today, active_positions, threadFrame, workers>>

\* lines 406-408: handle_martingale, with the chain of line 396
CycleMartingale ==
    /\ workers = <<"cycle">>
    /\ cycle.pc = "martingale"
    /\ \E mult10 \in Multipliers, r \in Responses :
         LET position == Head(cycle.todo)
             d == The(position.expiry_date)
             done == handle_martingale(Now, position, The(cycle.current_price),
                                       ChainOfAnswer(option_chains[d], d), mult10, Steady(r))
         IN /\ Commit(done.ctx)
            /\ cycle' = [Took(cycle, "handle_martingale", Some(position)) EXCEPT
                           !.pc = "positions", !.todo = Tail(@)]
    /\ UNCHANGED <<today, active_positions, threadFrame, workers>>

\* lines 410-412: close_positions_at_expiry, with its closing _update_positions
CycleClose ==
    /\ workers = <<"cycle">>
    /\ cycle.pc = "close"
    /\ \E r \in Responses :
         LET done == close_positions_at_expiry(Now, active_positions, today, Steady(r))
         IN /\ Commit(done.ctx)
            /\ \E answer \in IF done.sync THEN PositionAnswers ELSE {None} :
                 active_positions' = IF done.sync
                                     THEN update_positions(active_positions, answer)
                                     ELSE active_positions
    /\ cycle' = [Took(cycle, "close_positions_at_expiry", None) EXCEPT !.pc = "roll"]
    /\ UNCHANGED <<today, threadFrame, workers>>

\* lines 414-416: roll_hedge_positions, with its closing _update_positions
CycleRoll ==
    /\ workers = <<"cycle">>
    /\ cycle.pc = "roll"
    /\ \E a \in ChainAnswers, r \in Responses :
         LET done == roll_hedge_positions(Now, active_positions, today, Steady(a), Steady(r))
         IN /\ Commit(done.ctx)
            /\ \E answer \in IF done.sync THEN PositionAnswers ELSE {None} :
                 active_positions' = IF done.sync
                                     THEN update_positions(active_positions, answer)
                                     ELSE active_positions
    /\ cycle' = [Took(cycle, "roll_hedge_positions", None) EXCEPT !.pc = "sleep"]
    /\ UNCHANGED <<today, threadFrame, workers>>

\* lines 353, 361, 372 and 419: time.sleep, then back to the test of line 344
CycleSleep ==
    /\ workers = <<"cycle">>
    /\ cycle.pc = "sleep"
    /\ workers' = <<"loop">>
    /\ cycle' = [cycle EXCEPT !.pc = "clock"]
    /\ UNCHANGED <<engineVars, threadFrame>>

\* variant: the exception ends the thread
CycleExceptFatal ==
    /\ workers = <<"cycle">>
    /\ cycle.pc = "except"
    /\ workers' = <<"done">>
    /\ cycle' = [cycle EXCEPT !.pc = "clock"]
    /\ UNCHANGED <<engineVars, threadFrame>>

\* lines 421-424: the handler at the loop boundary logs the exception,
\* sleeps 60 seconds and goes back to the test of line 344
CycleExcept ==
    /\ workers = <<"cycle">>
    /\ cycle.pc = "except"
    /\ workers' = <<"loop">>
    /\ cycle' = [cycle EXCEPT !.pc = "clock"]
    /\ UNCHANGED <<engineVars, threadFrame>>

\* the steps of the _run_strategy thread
ThreadStep ==
    \/ WorkerCheck
    \/ CycleClock
    \/ CycleFunds
    \/ CycleSpot
    \/ CycleResync
    \/ CycleEntry
    \/ CyclePosition
    \/ CycleStopLoss
    \/ CycleMartingale
    \/ CycleClose
    \/ CycleRoll
    \/ CycleSleep
    \/ CycleExcept

NextLoop ==
    \/ ThreadStep
    \/ DoStop

SpecLoop == InitLoop /\ [][NextLoop]_vars

----------------------------------------------------------------------------

(* Properties of the ledger *)

SymbolsOf(positions) == {positions[i].symbol : i \in DOMAIN positions}
SnapshotSymbols(snapshot) == {snapshot[i].tradingSymbol : i \in DOMAIN snapshot}
OneEntryPerSymbol(positions) ==
    \A i, j \in DOMAIN positions : positions[i].symbol = positions[j].symbol => i = j

\* C1: after every ledger synchronization in which the gateway returned a
\* snapshot (not a transport failure), active_positions holds exactly one
\* position per distinct symbol of the snapshot and none for any other symbol;
\* after an empty snapshot active_positions is empty.
C1_LedgerIsSnapshot ==
    (last.synced /\ IsSome(last.snapshot)) =>
        /\ SymbolsOf(active_positions) = SnapshotSymbols(The(last.snapshot))
        /\ OneEntryPerSymbol(active_positions)

----------------------------------------------------------------------------
(* Properties of the application's threads *)

\* the strategy-loop threads that have seen is_running true and are running
\* the checklist
WorkersInCycle == {w \in DOMAIN workers : workers[w] = "cycle"}

\* C2: at any time at most one strategy-loop thread is executing the
\* checklist: after any sequence of start, stop and reconnect calls there are
\* never two strategy-loop threads alive that both observe is_running = true.
C2_SingleWorker == Cardinality(WorkersInCycle) <= 1

----------------------------------------------------------------------------
(* Properties of place_short_strangle *)

StrangleDone == last.op = "place_short_strangle"

\* the place_order calls of the last operation that the gateway accepted
Accepted(log) == {i \in DOMAIN log : log[i].resp # "rejected"}
AcceptedWithId(log) == {i \in DOMAIN log : log[i].resp = "ok"}

\* the order of the four legs: SELL call, SELL put, BUY call, BUY put
LegSide(i) == IF i <= 2 THEN "SELL" ELSE "BUY"
LegType(i) == IF i % 2 = 1 THEN "CE" ELSE "PE"
IsLeg(entry, i) ==
    /\ entry.params.transaction_type = LegSide(i)
    /\ entry.params.trading_symbol.typ = LegType(i)
    /\ entry.params.order_type = "MARKET"

\* the order book holds, under the order id the gateway returned, an order
\* for the symbol and side of the log entry
Recorded(entry) ==
    /\ IsSome(entry.order_id)
    /\ The(entry.order_id) \in DOMAIN active_orders
    /\ active_orders[The(entry.order_id)].symbol = entry.params.trading_symbol
    /\ active_orders[The(entry.order_id)].side = entry.params.transaction_type
    /\ active_orders[The(entry.order_id)].quantity = entry.params.quantity

\* C3: place_short_strangle returns True if and only if all four legs were
\* accepted by the gateway; it submits nothing but the legs (no cancel, no
\* compensating order), and every leg that was accepted with an order id
\* stays recorded in active_orders, also when the operation returns False.
C3_StrangleResult ==
    StrangleDone =>
        /\ last.ret <=> (Len(last.log) = 4 /\ Accepted(last.log) = 1..4)
        /\ Len(last.log) <= 4
        /\ \A i \in DOMAIN last.log :
              \E j \in i..4 : IsLeg(last.log[i], j)
        /\ \A i \in AcceptedWithId(last.log) : Recorded(last.log[i])

\* C3 as stated: every accepted leg stays recorded in active_orders
C3_EveryAcceptedLegRecorded ==
    StrangleDone => \A i \in Accepted(last.log) : Recorded(last.log[i])

\* three legs were accepted and recorded, the fourth was rejected
C3_PartialStrangle ==
    /\ StrangleDone
    /\ ~last.ret
    /\ Len(last.log) = 4
    /\ AcceptedWithId(last.log) = 1..3
    /\ \A i \in 1..3 : Recorded(last.log[i])

SellExpiry == get_expiry_date_n_weeks_ahead(today, sell_expiry_weeks)
HedgeExpiry == get_expiry_date_n_weeks_ahead(today, hedge_expiry_weeks)

\* both chains of the last place_short_strangle were resolved
ChainsResolved == StrangleDone /\ {SellExpiry, HedgeExpiry} \subseteq DOMAIN option_chains

\* the gateway's table for the expiry quotes the contract
Quoted(d, k, t) ==
    /\ k \in DOMAIN ChainTable(d).contracts
    /\ t \in DOMAIN ChainTable(d).contracts[k]

SellStrikeOf(t) ==
    IF t = "CE" THEN CeStrike(last.spot2, strangle_distance)
    ELSE PeStrike(last.spot2, strangle_distance)

Submitted(side, t) ==
    \E i \in DOMAIN last.log :
        /\ last.log[i].params.transaction_type = side
        /\ last.log[i].params.trading_symbol.typ = t

SellAccepted(t) ==
    \E i \in Accepted(last.log) :
        /\ last.log[i].params.transaction_type = "SELL"
        /\ last.log[i].params.trading_symbol.typ = t

C19_NoChainNoOrder ==
    (StrangleDone /\ ~ChainsResolved) => (~last.ret /\ last.log = <<>>)

\* the sell chain was resolved, the hedge chain was looked up and missed, and
\* nothing was submitted
C19_HedgeChainMissed ==
    /\ StrangleDone
    /\ SellExpiry \in DOMAIN option_chains
    /\ HedgeExpiry \notin DOMAIN option_chains
    /\ last.fetches = <<SellExpiry, HedgeExpiry>>
    /\ last.log = <<>>
    /\ ~last.ret

MarketOrder(entry, side, symbol, quantity) ==
    /\ entry.params.order_type = "MARKET"
    /\ entry.params.transaction_type = side
    /\ entry.params.trading_symbol = symbol
    /\ entry.params.quantity = quantity

\* C5: when all four legs place, exactly four market orders were submitted,
\* each of quantity lot_size * lots_per_investment: SELL CE at callStrike and
\* SELL PE at putStrike on the sell-expiry chain, BUY CE at callStrike + 50
\* and BUY PE at putStrike - 50 on the hedge-expiry chain; for a spot of 20000
\* and a distance of 1000 the strikes are 21000, 19000, 21050 and 18950.
C5_FourLegs ==
    (StrangleDone /\ last.ret) =>
        LET q == lot_size * lots_per_investment
            call == SellStrikeOf("CE")
            put == SellStrikeOf("PE")
        IN /\ Len(last.log) = 4
           /\ MarketOrder(last.log[1], "SELL", Sym(SellExpiry, call, "CE"), q)
           /\ MarketOrder(last.log[2], "SELL", Sym(SellExpiry, put, "PE"), q)
           /\ MarketOrder(last.log[3], "BUY", Sym(HedgeExpiry, call + 50, "CE"), q)
           /\ MarketOrder(last.log[4], "BUY", Sym(HedgeExpiry, put - 50, "PE"), q)
           /\ (last.spot2 = 40000 /\ strangle_distance = 1000) =>
                 /\ last.log[1].params.trading_symbol.strike = 21000
                 /\ last.log[2].params.trading_symbol.strike = 19000
                 /\ last.log[3].params.trading_symbol.strike = 21050
                 /\ last.log[4].params.trading_symbol.strike = 18950

\* a strangle placed in full at a spot of 20000
C5_StranglePlaced ==
    /\ StrangleDone
    /\ last.ret
    /\ last.spot2 = 40000
    /\ Len(last.log) = 4

----------------------------------------------------------------------------
(* Properties of the strike selection *)

\* C6: for every spot price S and distance D the computed strikes are
\* multiples of 50 with callStrike >= S + D - 25 and putStrike <= S - D + 25,
\* also where S + D or S - D lies halfway between two multiples of 50 and
\* where S is not an integer.  (spot2 is 2 * S.)
C6_StrikeTolerance ==
    last.op = "strikes" =>
        /\ last.ce_strike % 50 = 0
        /\ last.pe_strike % 50 = 0
        /\ 2 * last.ce_strike >= last.spot2 + 2 * last.distance - 50
        /\ 2 * last.pe_strike <= last.spot2 - 2 * last.distance + 50

----------------------------------------------------------------------------
(* Properties of the orders sent to the gateway *)

\* C7: every order the engine submits has a quantity that is a positive
\* multiple of lot_size, for every martingale multiplier and every snapshot
\* the gateway can return (records with net quantity 0 included).
C7_QuantityInLots ==
    \A i \in DOMAIN last.log :
        /\ last.log[i].params.quantity > 0
        /\ last.log[i].params.quantity % lot_size = 0

----------------------------------------------------------------------------
(* Properties of handle_stop_loss *)

StopLossDone == last.op = "handle_stop_loss"
Stopped == The(last.pos)

\* (average_price - current_price) / average_price >= stop_loss_trigger
DropAtLeastTrigger ==
    /\ Stopped.average_price # 0
    /\ 100 * (Stopped.average_price - last.price) >= stop_loss_trigger * Stopped.average_price

\* C8: handle_stop_loss submits a stop order if and only if the position is
\* SELL-side and (average_price - current_price) / average_price >=
\* stop_loss_trigger, the boundary included (average 100, trigger 0.25: 75
\* triggers, anything above 75 does not); for a BUY-side position or a drop
\* below the threshold it submits no order and returns False.
C8_StopLossTrigger ==
    StopLossDone =>
        /\ last.log # <<>> <=> (Stopped.side = "SELL" /\ DropAtLeastTrigger)
        /\ (Stopped.side = "BUY" \/ ~DropAtLeastTrigger) => (last.log = <<>> /\ ~last.ret)
        /\ (Stopped.side = "SELL" /\ Stopped.average_price = 10000 /\ stop_loss_trigger = 25) =>
              (last.log # <<>> <=> last.price <= 7500)

\* a short position at average 100 is checked at a price of exactly 75 and
\* the stop order is submitted
C8_StopAtBoundary ==
    /\ StopLossDone
    /\ Stopped.side = "SELL"
    /\ Stopped.average_price = 10000
    /\ last.price = 7500
    /\ last.log # <<>>

\* C9: when stop-loss triggers, the first order submitted is a BUY stop (SL)
\* order on the position's own symbol with the position's quantity, whose
\* price and trigger_price both equal average_price * stop_loss_percentage.
C9_StopOrder ==
    (StopLossDone /\ last.log # <<>>) =>
        LET stop_order == last.log[1].params
        IN /\ stop_order.transaction_type = "BUY"
           /\ stop_order.order_type = "SL"
           /\ stop_order.trading_symbol = Stopped.symbol
           /\ stop_order.quantity = Stopped.quantity
           /\ 100 * stop_order.price = stop_loss_percentage * Stopped.average_price
           /\ stop_order.trigger_price = stop_order.price

\* a stop order at 90 for a short position of 225 sold at an average of 100
C9_StopOrderSent ==
    /\ StopLossDone
    /\ last.log # <<>>
    /\ last.log[1].params.price = 9000
    /\ last.log[1].params.quantity = 225

\* C10: the re-entry SELL is submitted only after the stop order was accepted
\* (never when it was rejected), at most once per call, and it targets the
\* same strike, option type, expiry and quantity as the stopped position.
C10_Reentry ==
    StopLossDone =>
        /\ Len(last.log) <= 2
        /\ Len(last.log) = 2 =>
              LET reentry == last.log[2].params
              IN /\ last.log[1].resp # "rejected"
                 /\ reentry.transaction_type = "SELL"
                 /\ reentry.trading_symbol.strike = The(Stopped.strike_price)
                 /\ reentry.trading_symbol.typ = Stopped.option_type
                 /\ reentry.trading_symbol.day = The(Stopped.expiry_date)
                 /\ reentry.quantity = Stopped.quantity

\* the stop order was accepted and the re-entry sell of 225 followed
C10_ReentrySent ==
    /\ StopLossDone
    /\ Len(last.log) = 2
    /\ last.log[1].resp = "ok"
    /\ last.log[2].params.transaction_type = "SELL"
    /\ last.log[2].params.quantity = 225

\* the stop order of the last handle_stop_loss was submitted and accepted
StopAccepted == last.log # <<>> /\ last.log[1].resp # "rejected"

\* C11: handle_stop_loss returns True exactly when the stop order was accepted
\* by the gateway, whatever became of the re-entry: a chain miss, a strike the
\* chain does not quote, a rejected re-entry sell and a position without an
\* expiry date all still give True.
C11_StopLossResult ==
    StopLossDone =>
        /\ last.ret <=> StopAccepted
        /\ (StopAccepted /\ Stopped.expiry_date = None) => last.ret
        /\ (StopAccepted /\ last.fetches # <<>> /\ Len(last.log) = 1) => last.ret
        /\ (StopAccepted /\ Len(last.log) = 2 /\ last.log[2].resp = "rejected") => last.ret

\* the stop order was accepted, the re-entry sell was rejected, and the result
\* is True
C11_ReentryRejected ==
    /\ StopLossDone
    /\ last.ret
    /\ Len(last.log) = 2
    /\ last.log[1].resp = "ok"
    /\ last.log[2].resp = "rejected"

----------------------------------------------------------------------------
(* Properties of repeated calls *)

\* the step is a second call of handle_stop_loss or handle_martingale with
\* the position, the price and the multiplier of the call before it
RepeatedCall ==
    /\ last.op \in {"handle_stop_loss", "handle_martingale"}
    /\ last'.op = last.op
    /\ last'.pos = last.pos
    /\ last'.price = last.price
    /\ last'.mult10 = last.mult10
    /\ active_positions' = active_positions

\* C12: calling handle_stop_loss (or handle_martingale) a second time with the
\* same position, the same price and no ledger change in between submits no
\* order beyond those of the first call.
C12_RepeatSubmitsNothing == [][RepeatedCall => last'.log = <<>>]_vars

----------------------------------------------------------------------------
(* Properties of handle_martingale *)

MartingaleDone == last.op = "handle_martingale"
Scaled == The(last.pos)

\* current_price / average_price >= martingale_trigger
RatioAtLeastTrigger ==
    /\ Scaled.average_price # 0
    /\ 100 * last.price >= martingale_trigger * Scaled.average_price

MartingaleStrikeOf(position) ==
    IF position.option_type = "CE" THEN The(position.strike_price) + 50
    ELSE The(position.strike_price) - 50

\* the chain of the position's expiry quotes the contract at martingaleStrike
MartingaleQuoted ==
    Quoted(The(Scaled.expiry_date), MartingaleStrikeOf(Scaled), Scaled.option_type)

\* the strikes of the position's chain whose premium for the position's option
\* type lies in [0.8, 1.2] * (premium at martingaleStrike / martingale_premium_divisor)
MatchingStrikes ==
    LET contracts == ChainTable(The(Scaled.expiry_date)).contracts
        t == Scaled.option_type
        base == contracts[MartingaleStrikeOf(Scaled)][t].last_price
    IN {k \in DOMAIN contracts :
           /\ t \in DOMAIN contracts[k]
           /\ 8 * base <= 10 * martingale_premium_divisor * contracts[k][t].last_price
           /\ 10 * martingale_premium_divisor * contracts[k][t].last_price <= 12 * base}

\* the martingale SELL legs of the last operation: submitted, and placed
SellLegs == {i \in DOMAIN last.log : last.log[i].params.transaction_type = "SELL"}
PlacedSellLegs == SellLegs \cap Accepted(last.log)

\* C13: handle_martingale submits orders if and only if the position is
\* SELL-side, current_price / average_price >= martingale_trigger and the
\* contract at martingaleStrike is quoted; below the threshold it submits
\* nothing.  When the hedge BUY is accepted, one SELL leg is submitted for each
\* chain strike of the same option type whose premium lies in [0.8, 1.2] *
\* (premium at martingaleStrike / martingale_premium_divisor), and the legs
\* placed are those the gateway accepted; when the hedge BUY is rejected no
\* SELL leg is submitted.
C13_MartingaleLegs ==
    MartingaleDone =>
        /\ last.log # <<>> <=> (Scaled.side = "SELL" /\ RatioAtLeastTrigger /\ MartingaleQuoted)
        /\ ~RatioAtLeastTrigger => (last.log = <<>> /\ ~last.ret)
        /\ last.log # <<>> =>
              IF last.log[1].resp = "rejected"
              THEN SellLegs = {} /\ ~last.ret
              ELSE /\ Cardinality(SellLegs) = Cardinality(MatchingStrikes)
                   /\ {last.log[i].params.trading_symbol.strike : i \in SellLegs} = MatchingStrikes
                   /\ \A i \in SellLegs : last.log[i].params.trading_symbol.typ = Scaled.option_type
                   /\ last.ret

\* C13 as stated: whenever martingale triggers, the number of newly placed
\* SELL legs equals the number of matching strikes
C13_PlacedEqualsMatching ==
    (MartingaleDone /\ Scaled.side = "SELL" /\ RatioAtLeastTrigger /\ MartingaleQuoted) =>
        Cardinality(PlacedSellLegs) = Cardinality(MatchingStrikes)

\* martingale triggers at exactly twice the average price, the hedge BUY is
\* accepted and a SELL leg goes out for each of the two matching strikes
C13_TwoSellLegs ==
    /\ MartingaleDone
    /\ last.price = 2 * Scaled.average_price
    /\ Len(last.log) = 3
    /\ Cardinality(MatchingStrikes) = 2
    /\ Cardinality(SellLegs) = 2

\* C14: when martingale triggers and the contract at martingaleStrike (strike
\* + 50 for a call, strike - 50 for a put) is quoted, exactly one BUY market
\* order for that contract at the position's quantity is submitted, before
\* any martingale SELL leg; every SELL leg is a market order of quantity
\* floor(position quantity * martingale_quantity_multiplier).
C14_HedgeBuyFirst ==
    (MartingaleDone /\ Scaled.side = "SELL" /\ RatioAtLeastTrigger /\ MartingaleQuoted) =>
        /\ last.log # <<>>
        /\ MarketOrder(last.log[1], "BUY",
                       Sym(The(Scaled.expiry_date), MartingaleStrikeOf(Scaled),
                           Scaled.option_type),
                       Scaled.quantity)
        /\ \A i \in DOMAIN last.log : i > 1 => i \in SellLegs
        /\ \A i \in SellLegs :
              /\ last.log[i].params.order_type = "MARKET"
              /\ 10 * last.log[i].params.quantity <= Scaled.quantity * last.mult10
              /\ 10 * (last.log[i].params.quantity + 1) > Scaled.quantity * last.mult10

\* a short call of 225 at 21000 is scaled with multiplier 1.5: the hedge BUY
\* of 225 at 21050 goes first and the SELL legs have quantity 337
C14_SellLegsOf337 ==
    /\ MartingaleDone
    /\ last.mult10 = 15
    /\ Len(last.log) = 3
    /\ last.log[1].params.transaction_type = "BUY"
    /\ last.log[1].params.trading_symbol.strike = 21050
    /\ last.log[1].params.quantity = 225
    /\ last.log[2].params.quantity = 337
    /\ last.log[3].params.quantity = 337

----------------------------------------------------------------------------
(* Properties of close_positions_at_expiry *)

CloseDone == last.op = "close_positions_at_expiry"
CloseDate == get_expiry_date_n_weeks_ahead(today, close_after_weeks)

\* the positions of the ledger, as the operation found it, that expire on or
\* before the close date
Due ==
    {i \in DOMAIN last.ledger :
        /\ last.ledger[i].expiry_date # None
        /\ The(last.ledger[i].expiry_date) <= CloseDate}

\* the orders of the last operation on the symbol of a position
OrdersOn(position) ==
    {j \in DOMAIN last.log : last.log[j].params.trading_symbol = position.symbol}

\* C15: close_positions_at_expiry submits, for every active position whose
\* expiry date is on or before the close date and for no other position,
\* exactly one market order of the opposite side and the same quantity on the
\* position's symbol; a rejected close neither stops the remaining closes nor
\* is retried; after the closes the ledger is resynchronised once.
C15_ExpiryCloses ==
    CloseDone =>
        /\ \A i \in Due :
              /\ Cardinality(OrdersOn(last.ledger[i])) = 1
              /\ \A j \in OrdersOn(last.ledger[i]) :
                    MarketOrder(last.log[j],
                                IF last.ledger[i].side = "SELL" THEN "BUY" ELSE "SELL",
                                last.ledger[i].symbol, last.ledger[i].quantity)
        /\ \A i \in (DOMAIN last.ledger) \ Due : OrdersOn(last.ledger[i]) = {}
        /\ Len(last.log) = Cardinality(Due)
        /\ last.synced <=> Due # {}
        /\ last.synced =>
              active_positions = IF last.snapshot = None \/ The(last.snapshot) = <<>>
                                 THEN last.ledger
                                 ELSE ProcessPositions(<<>>, The(last.snapshot))

\* two positions were due, the first close was rejected, the second was still
\* submitted, and the ledger was resynchronised from a snapshot
C15_SecondCloseAfterRejection ==
    /\ CloseDone
    /\ Cardinality(Due) = 2
    /\ Len(last.log) = 2
    /\ last.log[1].resp = "rejected"
    /\ last.log[2].resp = "ok"
    /\ last.synced
    /\ last.snapshot # None

\* C16: a call of close_positions_at_expiry that finds no active position
\* with an expiry date on or before the close date submits no order, makes no
\* position fetch, returns False and leaves active_positions, active_orders
\* and the chain cache as they were; so does a second call right after it.
C16_NothingDueNothingDone ==
    [][(CloseDone' /\ Due' = {}) =>
          /\ last'.log = <<>>
          /\ ~last'.synced
          /\ ~last'.ret
          /\ UNCHANGED <<active_positions, active_orders, option_chains>>]_vars

\* the operation ran on a ledger that holds positions, none of them due
C16_NothingDue ==
    /\ CloseDone
    /\ last.ledger # <<>>
    /\ Due = {}
    /\ ~last.ret
    /\ active_positions = last.ledger

----------------------------------------------------------------------------
(* Properties of roll_hedge_positions *)

RollDone == last.op = "roll_hedge_positions"

\* a position flagged as a hedge that expires today or earlier
IsDueHedge(position) ==
    /\ position.is_hedge
    /\ position.expiry_date # None
    /\ The(position.expiry_date) <= today

IsCloseOrder(entry) == entry.params.transaction_type = "SELL"
IsReplacement(entry) == entry.params.transaction_type = "BUY"

\* the hedge positions the operation found due, and its close orders, in order
DueHedges == SelectSeq(last.ledger, IsDueHedge)
CloseOrders == SelectSeq(last.log, IsCloseOrder)

\* the position whose close order is the log entry
ClosedBy(entry) ==
    CHOOSE position \in {last.ledger[i] : i \in DOMAIN last.ledger} :
        position.symbol = entry.params.trading_symbol

C18_RollContinues ==
    (RollDone /\ last.ret) =>
        /\ \A j \in DOMAIN last.log :
              IsReplacement(last.log[j]) =>
                  /\ j > 1
                  /\ IsCloseOrder(last.log[j - 1])
                  /\ last.log[j - 1].resp # "rejected"
                  /\ last.log[j].params.trading_symbol.typ =
                        last.log[j - 1].params.trading_symbol.typ
        /\ \A j \in DOMAIN last.log :
              (IsCloseOrder(last.log[j]) /\ last.log[j].resp # "rejected"
               /\ Quoted(HedgeExpiry,
                         HedgeStrike(The(ClosedBy(last.log[j]).strike_price),
                                     ClosedBy(last.log[j]).option_type),
                         ClosedBy(last.log[j]).option_type)) =>
                  /\ j + 1 \in DOMAIN last.log
                  /\ IsReplacement(last.log[j + 1])
        /\ Len(CloseOrders) = Len(DueHedges)
        /\ \A k \in DOMAIN CloseOrders :
              MarketOrder(CloseOrders[k], "SELL", DueHedges[k].symbol, DueHedges[k].quantity)

\* the first hedge's close was rejected and no replacement followed it; the
\* second hedge was closed and its replacement, though rejected, submitted
C18_SecondHedgeRolled ==
    /\ RollDone
    /\ Len(DueHedges) = 2
    /\ Len(last.log) = 3
    /\ last.log[1].resp = "rejected"
    /\ IsCloseOrder(last.log[2])
    /\ last.log[2].resp = "ok"
    /\ IsReplacement(last.log[3])
    /\ last.log[3].resp = "rejected"

----------------------------------------------------------------------------
(* Properties of the chain cache *)

ChainLookupDone == last.op = "get_option_chain_for_expiry"

\* C20: a call of get_option_chain_for_expiry that returns a miss (chain
\* master unavailable, no expiry matching the date, no token, chain fetch
\* failure, or an exception) leaves the chain cache as it was, and it sends
\* at most one lookup to the gateway.
C20_MissLeavesCache ==
    [][(ChainLookupDone' /\ ~last'.ret) =>
          /\ option_chains' = option_chains
          /\ Len(last'.fetches) <= 1]_vars

\* with the chain of day 45 cached, the lookup for day 17 went to the gateway
\* once and missed; the cache still holds the chain of day 45 only
C20_MissAfterHit ==
    /\ ChainLookupDone
    /\ ~last.ret
    /\ last.date = Some(17)
    /\ last.fetches = <<17>>
    /\ DOMAIN option_chains = {45}

\* an operation of the engine, as opposed to one of the application object
EngineStep == UNCHANGED appVars

\* C21: no operation (engine operation, ledger resync or reconnect) removes
\* or replaces an entry of the chain cache, and an engine operation sends no
\* chain lookup to the gateway for a date that is cached when it starts; a
\* get_option_chain_for_expiry call for a cached date returns the chain.
C21_CacheKept ==
    [][/\ \A d \in DOMAIN option_chains :
             d \in DOMAIN option_chains' /\ option_chains'[d] = option_chains[d]
       /\ EngineStep =>
             \A k \in DOMAIN last'.fetches : last'.fetches[k] \notin DOMAIN option_chains
       /\ (EngineStep /\ ChainLookupDone' /\ The(last'.date) \in DOMAIN option_chains) =>
             last'.ret /\ last'.fetches = <<>>]_vars

\* after a reconnect has replaced the engine's gateway client, with the
\* chains of days 45 and 17 cached, a lookup for day 45 returned the chain
\* without a gateway call
C21_HitAfterReconnect ==
    /\ ChainLookupDone
    /\ last.ret
    /\ last.date = Some(45)
    /\ last.fetches = <<>>
    /\ DOMAIN option_chains = {45, 17}
    /\ strategy_api = 2

----------------------------------------------------------------------------
(* Properties of the Control Loop *)

\* the names of the steps a pass has taken, in order
StepNames(c) == [k \in DOMAIN c.steps |-> c.steps[k].step]
HasStep(c, name) == \E k \in DOMAIN c.steps : c.steps[k].step = name
CountStep(c, name) == Cardinality({k \in DOMAIN c.steps : c.steps[k].step = name})

\* the step of the Control Loop that invokes place_short_strangle
EntersStrangle == cycle'.steps = Append(cycle.steps, Event("place_short_strangle", None))

\* C22: in a pass of the Control Loop place_short_strangle is invoked at
\* most once, and only directly after that pass's ledger resync with
\* active_positions empty: never while the ledger holds a position.
C22_StrangleOnlyOnEmptyLedger ==
    [][/\ CountStep(cycle', "place_short_strangle") <= 1
       /\ EntersStrangle =>
            /\ active_positions = <<>>
            /\ cycle.steps # <<>>
            /\ cycle.steps[Len(cycle.steps)].step = "update_positions"]_vars

\* a pass found the ledger empty after its resync, invoked
\* place_short_strangle, which placed orders, and went on to the end
C22_StrangleEntered ==
    /\ HasStep(cycle, "place_short_strangle")
    /\ HasStep(cycle, "roll_hedge_positions")
    /\ active_positions = <<>>
    /\ next_order_id > 1

\* the place of a step in the checklist
Rank(name) ==
    CASE name = "calculate_investment_amount" -> 1
      [] name = "get_spot_price" -> 2
      [] name = "update_positions" -> 3
      [] name = "place_short_strangle" -> 4
      [] name = "close_positions_at_expiry" -> 6
      [] name = "roll_hedge_positions" -> 7
      [] OTHER -> 5

\* C23: the steps of a pass run in the order funds refresh, spot refresh,
\* ledger resync, optional strangle entry, the steps on the positions, then
\* close_positions_at_expiry, then roll_hedge_positions; the first three are
\* never skipped, roll follows close directly; handle_martingale is
\* evaluated for a position directly after handle_stop_loss for the same
\* position, and both only for SELL positions.
C23_FixedOrder ==
    LET s == cycle.steps
    IN /\ \A j, k \in DOMAIN s :
            j < k => \/ Rank(s[j].step) < Rank(s[k].step)
                     \/ Rank(s[j].step) = 5 /\ Rank(s[k].step) = 5
       /\ \A k \in DOMAIN s : k <= 3 => Rank(s[k].step) = k
       /\ \A k \in DOMAIN s :
            s[k].step = "roll_hedge_positions" =>
                k > 1 /\ s[k - 1].step = "close_positions_at_expiry"
       /\ \A k \in DOMAIN s :
            s[k].step = "handle_martingale" =>
                k > 1 /\ s[k - 1].step = "handle_stop_loss" /\ s[k - 1].pos = s[k].pos
       /\ \A k \in DOMAIN s :
            (s[k].step = "handle_stop_loss" /\ k < Len(s)) =>
                s[k + 1].step = "handle_martingale" /\ s[k + 1].pos = s[k].pos
       /\ \A k \in DOMAIN s :
            s[k].step \in {"handle_stop_loss", "handle_martingale"} =>
                The(s[k].pos).side = "SELL"

\* a pass over a ledger of one SELL and one BUY position ran all its steps:
\* stop-loss and martingale once, for the SELL position, then close and roll
C23_FullPass ==
    /\ StepNames(cycle) = <<"calculate_investment_amount", "get_spot_price",
                            "update_positions", "get_current_price",
                            "get_option_chain_for_expiry", "handle_stop_loss",
                            "handle_martingale", "close_positions_at_expiry",
                            "roll_hedge_positions">>
    /\ Len(active_positions) = 2
    /\ \E i \in DOMAIN active_positions : active_positions[i].side = "BUY"

\* a pass has ended: the thread is back at the test of the loop
PassOver == cycle.pc = "clock" /\ cycle.steps # <<>>

\* C24: a failure while a SELL position is processed in the stop-loss and
\* martingale step (no price, no chain, or no expiry read from the symbol)
\* does not keep the pass from running close_positions_at_expiry and
\* roll_hedge_positions: a pass that resynchronised the ledger runs both.
C24_FailureIsolated ==
    (PassOver /\ HasStep(cycle, "update_positions")) =>
        /\ HasStep(cycle, "close_positions_at_expiry")
        /\ HasStep(cycle, "roll_hedge_positions")

\* The Control Loop with its thread scheduled and nobody stopping the
\* application: the time.sleep of the exception handler returns, and the
\* thread, back at the test of the loop, gets to evaluate it.
SpecLoopFair ==
    InitLoop /\ [][ThreadStep]_vars /\ WF_vars(CycleExcept) /\ WF_vars(WorkerCheck)

\* a new pass has begun: the thread is at the top of the loop body
PassBegun == workers = <<"cycle">> /\ cycle.pc = "clock"

\* C25: an exception raised by a step of a pass does not end the loop:
\* while is_running stays true, the thread sleeps and begins another pass
\* at the top of the checklist.
C25_LoopSurvivesException ==
    (cycle.pc = "except" /\ is_running) ~> PassBegun

\* a pass raised an exception and the thread has begun the next pass
C25_NextPassAfterException ==
    /\ PassBegun
    /\ is_running
    /\ HasStep(cycle, "raise")

\* a trading day (not a Saturday or Sunday, not a holiday) within the
\* trading hours, both ends included
InWindow(now) ==
    /\ Weekday(now.day) \notin {5, 6}
    /\ now.day \notin HOLIDAYS
    /\ start_time <= now.time
    /\ now.time <= end_time

\* the step of a pass that reads the clock
ReadsClock == workers = <<"cycle">> /\ cycle.pc = "clock" /\ cycle' # cycle

\* C29: a pass goes on to the checklist exactly when the clock reading is
\* on a trading day with start_time <= now <= end_time; a step of the
\* checklist is only ever taken under such a reading, and a pass outside the
\* window sleeps without a gateway call or a change to the engine.
C29_ChecklistOnlyInWindow ==
    [][/\ ReadsClock =>
            /\ (cycle'.pc = "funds") <=> InWindow(cycle'.now)
            /\ ~InWindow(cycle'.now) => (cycle'.pc = "sleep" /\ cycle'.steps = <<>>)
            /\ UNCHANGED engineVars
       /\ cycle'.steps # <<>> => InWindow(cycle'.now)
       /\ (cycle.pc = "sleep" /\ cycle.steps = <<>>) => UNCHANGED engineVars]_vars

\* a pass that read the clock at end_time on a trading day placed orders
C29_OrdersAtEndTime ==
    /\ cycle.now.time = end_time
    /\ HasStep(cycle, "place_short_strangle")
    /\ next_order_id > 1

----------------------------------------------------------------------------
(* Properties of the reconnection *)

\* C28: the gateway handle of the engine is replaced only while no
\* strategy-loop thread is in a pass of the checklist, so that all gateway
\* calls of one pass go to the same client.
C28_NoPassDuringExchange ==
    [][strategy_api' # strategy_api => WorkersInCycle = {}]_vars

\* C26: reconnect_attempts never exceeds max_retries + 1.
C26_AttemptsCapped == reconnect_attempts <= max_retries + 1

\* a connection check of a watchdog thread while the application is running
\* and the counter, once raised, is within the cap
ProbeWithinCap ==
    /\ is_running
    /\ reconnect_attempts < max_retries
    /\ \E m \in DOMAIN monitors : monitors[m] = "probe" /\ monitors'[m] # "probe"

\* the three outcomes of such a check
ProbeSucceeded ==
    UNCHANGED <<is_running, app_api, strategy_api, api_count, reconnect_attempts, workers>>
NewClient ==
    /\ api_count' = api_count + 1
    /\ app_api' = api_count'
LoginFailed ==
    /\ NewClient
    /\ reconnect_attempts' = reconnect_attempts + 1
    /\ strategy_api' = strategy_api
    /\ ~is_running'
    /\ workers' = workers
Reconnected ==
    /\ NewClient
    /\ reconnect_attempts' = 0
    /\ strategy_api' = app_api'
    /\ is_running'
    /\ workers' = Append(workers, "start")
    /\ Len(monitors') = Len(monitors) + 1

\* C27: when a connection check fails while the Control Loop is running and
\* the counter is within the cap, the watchdog raises the counter and
\* constructs a new gateway client; after a successful login the
\* application is running again with a new strategy-loop thread, the engine
\* uses the new client, and the counter is 0.  (When the login fails the
\* application stays stopped with the counter raised and the engine keeps
\* its old client.)
C27_ProbeOutcomes ==
    [][ProbeWithinCap => (ProbeSucceeded \/ LoginFailed \/ Reconnected)]_vars

\* the watchdog has reconnected: the application is running, the engine
\* uses the second client, the counter is 0 and a second strategy-loop
\* thread has been started
C27_ReconnectedByWatchdog ==
    /\ is_running
    /\ reconnect_attempts = 0
    /\ app_api = 2
    /\ strategy_api = 2
    /\ Len(workers) = 2
    /\ workers[2] = "start"
    /\ Len(monitors) = 2

----------------------------------------------------------------------------
(* Properties of the expiry date *)

Thursday == 3

\* C30: for every number of weeks and every today the expiry date computed
\* by get_expiry_date_n_weeks_ahead is a Thursday between today + 7 * weeks
\* and today + 7 * weeks + 6 days, and it is today + 7 * weeks exactly when
\* that day is a Thursday.
C30_NextThursday ==
    last.op = "expiry" =>
        LET target == today + 7 * last.weeks
            expiry == The(last.expiry_date)
        IN /\ Weekday(expiry) = Thursday
           /\ target <= expiry
           /\ expiry <= target + 6
           /\ (expiry = target) <=> (Weekday(target) = Thursday)

\* on a Friday, five weeks ahead: the expiry date is the Thursday six days
\* after the target date
C30_FridayRollsForward ==
    /\ last.op = "expiry"
    /\ Weekday(today) = 4
    /\ last.weeks = 5
    /\ The(last.expiry_date) = today + 7 * 5 + 6

----------------------------------------------------------------------------
(* Properties of the next trading day *)

\* neither a Saturday or Sunday nor a holiday
OpenDay(d, holidays) == Weekday(d) \notin {5, 6} /\ d \notin holidays

\* C31: get_next_trading_day terminates, and the date it returns is the
\* earliest date strictly after the given date that is neither a Saturday
\* or Sunday nor in the holiday set.
C31_NextTradingDay ==
    /\ <>(last.op = "found")
    /\ [](last.op = "found" =>
            /\ last.next_day > last.date
            /\ OpenDay(last.next_day, last.holidays)
            /\ \A d \in (last.date + 1)..(last.next_day - 1) :
                    ~OpenDay(d, last.holidays))

\* from a Thursday, with the Friday and the Monday holidays, the scan passed
\* the holiday, the weekend and the second holiday and returned the Tuesday
C31_AcrossWeekendAndHolidays ==
    /\ last.op = "found"
    /\ last.date = 3
    /\ last.holidays = {4, 7}
    /\ last.next_day = 8

----------------------------------------------------------------------------
(* Properties of the position flags *)

\* C32: no position of active_positions has is_hedge or is_martingale set,
\* whatever orders and ledger resyncs came before; roll_hedge_positions
\* therefore selects nothing: it sends no chain lookup, submits no order and
\* returns False.
C32_NoFlaggedPosition ==
    /\ \A i \in DOMAIN active_positions :
            ~active_positions[i].is_hedge /\ ~active_positions[i].is_martingale
    /\ RollDone => (last.log = <<>> /\ last.fetches = <<>> /\ ~last.ret /\ ~last.synced)

\* roll_hedge_positions ran on the expiry day of the long put of the
\* ledger, did nothing and returned False
C32_DueHedgeNotRolled ==
    /\ RollDone
    /\ ~last.ret
    /\ \E i \in DOMAIN active_positions :
            /\ active_positions[i].side = "BUY"
            /\ IsSome(active_positions[i].expiry_date)
            /\ The(active_positions[i].expiry_date) <= today

----------------------------------------------------------------------------
(* Properties across passes of the checklist *)

\* close_positions_at_expiry has closed positions, the gateway accepted
\* every close order, and the closing resync got a snapshot that holds no
\* position
ClosedOut ==
    /\ CloseDone
    /\ last.synced
    /\ \A j \in DOMAIN last.log : last.log[j].resp # "rejected"
    /\ last.snapshot = Some(<<>>)

\* C33: once the positions have been closed and the gateway's snapshot holds
\* none of their symbols any more, the next close_positions_at_expiry submits
\* no close order.
C33_ClosedOnce ==
    [][(ClosedOut /\ CloseDone') => last'.log = <<>>]_vars

\* the pass has gone through its resync and its test of the ledger
PastEntry == HasStep(cycle, "update_positions") /\ cycle.pc # "entry"

\* C34: when get_positions answers the resync of a pass with a snapshot
\* that holds no position, the pass invokes place_short_strangle.
C34_EmptySnapshotEntersStrangle ==
    (PastEntry /\ cycle.positions_data = Some(<<>>)) =>
        HasStep(cycle, "place_short_strangle")

----------------------------------------------------------------------------
(* Properties of a failed reconnection *)

\* a step of reconnect() whose login fails: a new client is constructed and
\* the retry counter, which a successful reconnection resets, stays raised
FailedLogin ==
    /\ NewClient
    /\ reconnect_attempts' # 0

\* the application as a failed login leaves it
Stranded == ~is_running /\ strategy_api # app_api

\* a watchdog thread comes to the test of its while loop and leaves the loop
\* there, the retry counter being what it was
WatchdogLeaves ==
    \A m \in DOMAIN monitors :
        (monitors[m] = "loop" /\ monitors'[m] # "loop") =>
            /\ monitors'[m] = "done"
            /\ reconnect_attempts' = reconnect_attempts

----------------------------------------------------------------------------
(* close_positions_at_expiry on a hedged ledger.  The ledger is rebuilt     *)
(* from a snapshot of a book that holds the short call of day 45 with a     *)
(* long call and a long put of day 17: sell_expiry_weeks and                *)
(* hedge_expiry_weeks ahead of day 8.                                       *)

HedgedRecords == <<RawSellCE, RawHedgeCE, RawHedgePE>>

HedgedSnapshots ==
    LET picks == {p \in UNION {[1..n -> DOMAIN HedgedRecords] : n \in 0..3} :
                     \A i, j \in DOMAIN p : i < j => p[i] < p[j]}
    IN {[i \in DOMAIN p |-> HedgedRecords[p[i]]] : p \in picks}

InitHedged ==
    /\ today \in Todays
    /\ active_positions \in {update_positions(<<>>, Some(s)) : s \in HedgedSnapshots}
    /\ active_orders = EmptyDict
    /\ option_chains = EmptyDict
    /\ next_order_id = 1
    /\ last = LastOf("init", None, 0, 0, NoCtx, FALSE, FALSE, None)
    /\ InitApp

NextHedged ==
    \/ DoUpdatePositions
    \/ DoClosePositionsAtExpiry

SpecHedged == InitHedged /\ [][NextHedged]_vars

\* the close orders of the last operation on a position that the gateway
\* accepted
AcceptedOn(position) ==
    {j \in OrdersOn(position) : last.log[j].resp # "rejected"}

\* C36: when close_positions_at_expiry does not select a SELL position of
\* an option type for closing, it closes no BUY position of that option
\* type.
C36_ShortLegStaysHedged ==
    CloseDone =>
        \A i, j \in DOMAIN last.ledger :
            (/\ last.ledger[i].side = "SELL"
             /\ i \notin Due
             /\ last.ledger[j].side = "BUY"
             /\ last.ledger[j].option_type = last.ledger[i].option_type)
            => AcceptedOn(last.ledger[j]) = {}

----------------------------------------------------------------------------
(* Stop-loss and martingale on the same position and price *)

\* the position and the price the last handler was called with
Handled == The(last.pos)
HandlerDone == StopLossDone \/ MartingaleDone

\* C37: for a SELL position with a positive average price, a price at which
\* handle_stop_loss submits its stop order is under martingale_trigger times
\* the average price, and a price at which handle_martingale submits orders
\* has dropped by less than stop_loss_trigger; for an average price of 0
\* either handler returns False and submits no order.
C37_TriggersExclusive ==
    /\ (StopLossDone /\ last.log # <<>>) =>
            /\ Handled.side = "SELL"
            /\ Handled.average_price > 0
            /\ 100 * last.price < martingale_trigger * Handled.average_price
    /\ (MartingaleDone /\ last.log # <<>>) =>
            /\ Handled.side = "SELL"
            /\ Handled.average_price > 0
            /\ 100 * (Handled.average_price - last.price)
                    < stop_loss_trigger * Handled.average_price
    /\ (HandlerDone /\ Handled.average_price = 0) =>
            (~last.ret /\ last.log = <<>>)

\* handle_martingale has submitted orders for a short position whose price
\* has doubled
C37_MartingaleAtDouble ==
    /\ MartingaleDone
    /\ last.log # <<>>
    /\ Handled.side = "SELL"
    /\ last.price = 2 * Handled.average_price
    /\ ~StopLossTriggered(Handled, last.price)

\* either handler has been called on a short position with no average price
C37_NoAveragePrice ==
    /\ HandlerDone
    /\ Handled.side = "SELL"
    /\ Handled.average_price = 0

----------------------------------------------------------------------------
(* place_short_strangle as a function of the investment amount, the quoted  *)
(* premiums and leg_premium_target.  An operation is run twice on the same  *)
(* engine state, spot price and gateway answers: once as given, and once    *)
(* with another investment amount, other quotes and another target.  The    *)
(* first run is the one the engine keeps.  The two runs start from the      *)
(* engine as constructed.                                                   *)

investment_per_lot == 150000

\* the quote table with every premium at pct per cent of its quote
Requoted(option_chain, pct) ==
    [option_chain EXCEPT !.contracts =
        [k \in DOMAIN @ |->
            [t \in DOMAIN @[k] |->
                [@[k][t] EXCEPT !.last_price = (@ * pct) \div 100]]]]

\* place_short_strangle lines 245-326 with _place_sell_order lines 364-369:
\* investment_amount is logged (line 256); target_premium is computed from
\* leg_premium_target (in hundredths of a per cent) and logged (line 370)
PlaceShortStrangleGiven(ctx, t, investment_amount, spot2, pct, leg_premium_target, answers, resps) ==
    LET quantity == StrangleQuantity
        ce_strike == CeStrike(spot2, strangle_distance)
        pe_strike == PeStrike(spot2, strangle_distance)
        sell_expiry_date == get_expiry_date_n_weeks_ahead(t, sell_expiry_weeks)
        hedge_expiry_date == get_expiry_date_n_weeks_ahead(t, hedge_expiry_weeks)
        sell == get_option_chain_for_expiry(ctx, sell_expiry_date, answers)
        hedge == get_option_chain_for_expiry(sell.ctx, hedge_expiry_date, answers)
        target_premium == (investment_per_lot * leg_premium_target) \div 10000
    IN IF sell.chain = None \/ hedge.chain = None
       THEN [ctx |-> hedge.ctx, ret |-> FALSE]
       ELSE PlaceStrangleLegs(hedge.ctx, Requoted(The(sell.chain), pct),
                              Requoted(The(hedge.chain), pct),
                              ce_strike, pe_strike, quantity, resps)

\* what the two runs may differ in
Investments == {150000, 300000}
QuotePcts == {100, 50}
PremiumTargets == {250, 500}
StrangleInputs ==
    [investment_amount : Investments, pct : QuotePcts, leg_premium_target : PremiumTargets]

DoPlaceShortStrangleTwice ==
    /\ last.op = "init"
    /\ RoomForOrders
    /\ active_positions = <<>>
    /\ \E spot2 \in Spots2, answers \in AnswerSeqs(2), given \in StrangleInputs :
        /\ Len(PlaceShortStrangleGiven(Now, today, given.investment_amount, spot2,
                                       given.pct, given.leg_premium_target,
                                       answers, <<>>).ctx.fetches) = Len(answers)
        /\ \E resps \in ResponseSeqs(4) :
            LET done == PlaceShortStrangleGiven(Now, today, given.investment_amount, spot2,
                                                given.pct, given.leg_premium_target,
                                                answers, resps)
            IN /\ Used(done.ctx, answers, resps)
               /\ Commit(done.ctx)
               /\ \E other \in StrangleInputs :
                    LET twin == PlaceShortStrangleGiven(Now, today, other.investment_amount,
                                                        spot2, other.pct,
                                                        other.leg_premium_target,
                                                        answers, resps)
                    IN last' = [given |-> given, other |-> other, twin |-> twin.ctx.log]
                               @@ LastOf("place_short_strangle", None, 0, spot2, done.ctx,
                                         done.ret, FALSE, None)
    /\ UNCHANGED <<today, active_positions>>
    /\ UNCHANGED appVars

NextTwice == DoPlaceShortStrangleTwice

SpecTwice == Init /\ [][NextTwice]_vars

\* the parameters of the orders submitted, in order, with the gateway's
\* answer to each
OrderSequence(log) == [j \in DOMAIN log |-> [params |-> log[j].params, resp |-> log[j].resp]]

----------------------------------------------------------------------------
(* The order book across operations.  The gateway's order counter is the    *)
(* gateway's own: here it stands one short of the bound, so that a second   *)
(* operation is followed after one that recorded an order.  The operations  *)
(* are the ledger resync, the stop-loss handler, which records its order,   *)
(* and IronCondorApp.reconnect.                                             *)

InitOrders ==
    /\ today \in Todays
    /\ active_positions = <<>>
    /\ active_orders = EmptyDict
    /\ option_chains = EmptyDict
    /\ next_order_id = MaxOrders - 1
    /\ last = LastOf("init", None, 0, 0, NoCtx, FALSE, FALSE, None)
    /\ InitApp

NextOrders ==
    \/ DoUpdatePositions
    \/ DoHandleStopLoss
    \/ DoReconnect

SpecOrders == InitOrders /\ [][NextOrders]_vars

\* the order ids with which the gateway answered the place_order calls of
\* the operation that has just ended
IdsReturned ==
    {The(last'.log[j].order_id) :
        j \in {i \in DOMAIN last'.log : last'.log[i].resp = "ok"}}

----------------------------------------------------------------------------
(* Properties of the console's close_all_positions *)

CloseAllDone == last.op = "close_all_positions"

\* C40: close_all_positions submits close orders for the active positions in
\* the ledger's order and attempts none after the first rejection, on which
\* it returns False; it returns True exactly when a close order was accepted
\* for every active position (among them when there is none); and it leaves
\* the ledger as it was, without a resync.
C40_StopsAtFirstRejection ==
    [][CloseAllDone' =>
        /\ active_positions' = active_positions
        /\ ~last'.synced
        /\ Len(last'.log) <= Len(active_positions)
        /\ \A j \in DOMAIN last'.log :
            /\ last'.log[j].params.trading_symbol = active_positions[j].symbol
            /\ j < Len(last'.log) => last'.log[j].resp # "rejected"
        /\ last'.ret <=>
            /\ Len(last'.log) = Len(active_positions)
            /\ \A j \in DOMAIN last'.log : last'.log[j].resp # "rejected"
        /\ ~last'.ret => last'.log[Len(last'.log)].resp = "rejected"]_vars

\* the close order of the first of two active positions was rejected: no
\* order was submitted for the second and the answer is False
C40_SecondNotAttempted ==
    /\ CloseAllDone
    /\ Len(active_positions) = 2
    /\ Len(last.log) = 1
    /\ last.log[1].resp = "rejected"
    /\ ~last.ret

====
